---- MODULE Spec2Model ----
(***************************************************************************)
(* Ledger extraction and normalisation pipeline of the orion backend.      *)
(*                                                                         *)
(* Three specifications share this module:                                 *)
(*   Spec      the persistence state machine: the ingestion paths          *)
(*             create_analysis_and_entries, pre_check_file, process_file   *)
(*             and the edge-function handler acting on the monthly_analyses*)
(*             financial_entries and file_uploads tables;                  *)
(*   SpecRules the movement classifier of BusinessRuleEngine applied to    *)
(*             enumerated (group, debit, credit) inputs;                   *)
(*   SpecPipe  BalanceteProcessor.process_balancete walked stage by stage. *)
(*                                                                         *)
(* Money is an integer number of thousandths (Scale units per currency     *)
(* unit); text is a sequence of one-character strings so that the parsing  *)
(* code can be followed character by character.                            *)
(***************************************************************************)
EXTENDS Integers, Sequences, FiniteSets, Bags, TLC

VARIABLES
    schema,             \* what the database schema provides (triggers)
    monthly_analyses,   \* table monthly_analyses: a set of rows
    financial_entries,  \* table financial_entries: a bag of rows
    file_uploads,       \* table file_uploads: upload id -> status
    pc,                 \* per call: the statement the call is at
    local,              \* per call: its arguments and local variables
    nsub,               \* number of submissions started so far
    ev,                 \* the step just taken (operation, outcome, inputs)
    content,            \* per analysis id: the statement last stored for it
                        \* by a run that returned normally
    r_pc, r_in, r_out,  \* classifier run: position, input, result
    p_pc, p_data, p_entries, p_stored, p_quarantine, p_result,
                        \* process_balancete run: stage, structured data,
                        \* processed entries, stored entries, quarantine,
                        \* returned result
    n_pc, n_in, n_out,  \* normalizer run: position, token, results
    l_pc, l_lines, l_subgroup, l_entries, l_ev,
                        \* parse_balancete_for_db run: position in the
                        \* page and line loops, the text lines of the pages,
                        \* current_subgroup, data["financial_entries"],
                        \* what each line read so far did
    c_pc, c_in, c_out, c_ev,
                        \* the record loop of create_analysis_and_entries:
                        \* position, analysis_data["financial_entries"],
                        \* entries_to_insert, the length of
                        \* entries_to_insert after each record read so far
    t_pc, t_lines, t_grupo, t_subgrupo, t_entries, t_ev
                        \* parse_balancete_from_text run: position in the
                        \* line loop, the lines of the text,
                        \* grupo_principal_atual, subgrupo_1_atual,
                        \* dados["financial_entries"], what each line read
                        \* so far did

dbVars == <<schema, monthly_analyses, financial_entries, file_uploads,
            pc, local, nsub, ev, content>>

ruleVars == <<r_pc, r_in, r_out>>

pipeVars == <<p_pc, p_data, p_entries, p_stored, p_quarantine, p_result>>

normVars == <<n_pc, n_in, n_out>>

parseVars == <<l_pc, l_lines, l_subgroup, l_entries, l_ev>>

reconVars == <<c_pc, c_in, c_out, c_ev>>

textVars == <<t_pc, t_lines, t_grupo, t_subgrupo, t_entries, t_ev>>

vars == <<dbVars, ruleVars, pipeVars, normVars, parseVars, reconVars, textVars>>

\* ------------------------------------------------------------------------
\* Bounds
\* ------------------------------------------------------------------------

\* number of submissions (calls of any ingestion path) in one behaviour
MaxSubmissions == 2

\* number of account records in the input of one process_balancete run
MaxContas == 2

\* largest magnitude, in currency units, of the debit and credit values the
\* classifier is applied to
MaxValue == 2

\* fractional digits kept by the fixed-point representation of a float
FracDigits == 3

\* ------------------------------------------------------------------------
\* Text and number helpers
\* ------------------------------------------------------------------------

None == [t |-> "none"]

Num(n) == [t |-> "num", v |-> n]

Str(s) == [t |-> "str", s |-> s]

RECURSIVE Pow10(_)
Pow10(n) == IF n = 0 THEN 1 ELSE 10 * Pow10(n - 1)

Scale == Pow10(FracDigits)

Digits == <<"0", "1", "2", "3", "4", "5", "6", "7", "8", "9">>

IsDigit(c) == \E i \in 1..10 : Digits[i] = c

DigitVal(c) == (CHOOSE i \in 1..10 : Digits[i] = c) - 1

Letters ==
    {"a", "b", "c", "d", "e", "f", "g", "h", "i", "j", "k", "l", "m",
     "n", "o", "p", "q", "r", "s", "t", "u", "v", "w", "x", "y", "z",
     "A", "B", "C", "D", "E", "F", "G", "H", "I", "J", "K", "L", "M",
     "N", "O", "P", "Q", "R", "S", "T", "U", "V", "W", "X", "Y", "Z"}

Whitespace == {" "}

Abs(n) == IF n < 0 THEN -n ELSE n

\* s with every character of the set cs removed
RECURSIVE RemoveChars(_, _)
RemoveChars(s, cs) ==
    IF s = <<>> THEN <<>>
    ELSE IF Head(s) \in cs THEN RemoveChars(Tail(s), cs)
         ELSE <<Head(s)>> \o RemoveChars(Tail(s), cs)

\* str.replace(a, b) for a single character a and a single character b
ReplaceChar(s, a, b) == [i \in 1..Len(s) |-> IF s[i] = a THEN b ELSE s[i]]

\* str.strip()
RECURSIVE LStrip(_)
LStrip(s) == IF s # <<>> /\ Head(s) \in Whitespace THEN LStrip(Tail(s)) ELSE s

RECURSIVE RStrip(_)
RStrip(s) ==
    IF s # <<>> /\ s[Len(s)] \in Whitespace THEN RStrip(SubSeq(s, 1, Len(s) - 1)) ELSE s

Strip(s) == RStrip(LStrip(s))

\* length of the longest run of digits of s that starts at position i
RECURSIVE DigitRun(_, _)
DigitRun(s, i) == IF i <= Len(s) /\ IsDigit(s[i]) THEN 1 + DigitRun(s, i + 1) ELSE 0

\* value of a sequence of digits read as a natural number
RECURSIVE DigitsToNat(_)
DigitsToNat(ds) ==
    IF ds = <<>> THEN 0
    ELSE 10 * DigitsToNat(SubSeq(ds, 1, Len(ds) - 1)) + DigitVal(ds[Len(ds)])

\* fixed-point value of the digits ds read as a decimal fraction 0.ds
FracToFixed(ds) ==
    IF Len(ds) <= FracDigits
    THEN DigitsToNat(ds) * Pow10(FracDigits - Len(ds))
    ELSE DigitsToNat(SubSeq(ds, 1, FracDigits))

\* The number matched at position i by the regular expression
\* -?\d+(?:\.\d+)? (greedy), as a fixed-point value; i is a position at
\* which the expression matches.
NumberAt(s, i) ==
    LET neg   == s[i] = "-"
        j     == IF neg THEN i + 1 ELSE i
        n     == DigitRun(s, j)
        k     == j + n
        m     == IF k <= Len(s) /\ s[k] = "." THEN DigitRun(s, k + 1) ELSE 0
        whole == DigitsToNat(SubSeq(s, j, k - 1)) * Scale
        frac  == IF m > 0 THEN FracToFixed(SubSeq(s, k + 1, k + m)) ELSE 0
    IN  IF neg THEN -(whole + frac) ELSE whole + frac

\* positions at which -?\d+(?:\.\d+)? matches
MatchStarts(s) ==
    {i \in 1..Len(s) :
        \/ IsDigit(s[i])
        \/ s[i] = "-" /\ i < Len(s) /\ IsDigit(s[i + 1])}

\* a variant that leaves the thousands points in place
ToFloatSafe_keep_points(v) ==
    IF v.t = "none" THEN 0
    ELSE IF v.t = "num" THEN v.v
    ELSE LET s0 == Strip(v.s)
             s1 == RemoveChars(s0, Letters \cup Whitespace)
             s2 == ReplaceChar(s1, ",", ".")
             ms == MatchStarts(s2)
         IN  IF ms = {} THEN 0
             ELSE NumberAt(s2, CHOOSE i \in ms : \A j \in ms : i <= j)

\* _to_float_safe: None -> 0, a number -> itself, a string -> letters and
\* blanks removed, dots removed, comma turned into the decimal point, first
\* numeric substring parsed; 0 when there is none.
ToFloatSafe(v) ==
    IF v.t = "none" THEN 0
    ELSE IF v.t = "num" THEN v.v
    ELSE LET s0 == Strip(v.s)
             s1 == RemoveChars(s0, Letters \cup Whitespace)
             s2 == ReplaceChar(RemoveChars(s1, {"."}), ",", ".")
             ms == MatchStarts(s2)
         IN  IF ms = {} THEN 0
             ELSE NumberAt(s2, CHOOSE i \in ms : \A j \in ms : i <= j)


\* ------------------------------------------------------------------------
\* Text constants (a text is a sequence of characters)
\* ------------------------------------------------------------------------

LowerCase ==
    <<"a", "b", "c", "d", "e", "f", "g", "h", "i", "j", "k", "l", "m",
      "n", "o", "p", "q", "r", "s", "t", "u", "v", "w", "x", "y", "z">>

UpperCase ==
    <<"A", "B", "C", "D", "E", "F", "G", "H", "I", "J", "K", "L", "M",
      "N", "O", "P", "Q", "R", "S", "T", "U", "V", "W", "X", "Y", "Z">>

\* str.upper() and str.lower(), character by character
UpperChar(c) ==
    IF \E i \in 1..Len(LowerCase) : LowerCase[i] = c
    THEN UpperCase[CHOOSE i \in 1..Len(LowerCase) : LowerCase[i] = c]
    ELSE c

LowerChar(c) ==
    IF \E i \in 1..Len(UpperCase) : UpperCase[i] = c
    THEN LowerCase[CHOOSE i \in 1..Len(UpperCase) : UpperCase[i] = c]
    ELSE c

Upper(s) == [i \in 1..Len(s) |-> UpperChar(s[i])]

Lower(s) == [i \in 1..Len(s) |-> LowerChar(s[i])]

\* sub in s
Contains(s, sub) ==
    \E i \in 1..(Len(s) - Len(sub) + 1) : SubSeq(s, i, i + Len(sub) - 1) = sub

T_RECEITAS == <<"R", "E", "C", "E", "I", "T", "A", "S">>

T_CUSTOS_E_DESPESAS ==
    <<"C", "U", "S", "T", "O", "S", " ", "E", " ", "D", "E", "S", "P", "E", "S", "A", "S">>

T_ATIVO == <<"A", "T", "I", "V", "O">>

T_receitas_padded == <<" ", "r", "e", "c", "e", "i", "t", "a", "s">>

T_Receita == <<"R", "e", "c", "e", "i", "t", "a">>

T_Despesa == <<"D", "e", "s", "p", "e", "s", "a">>

T_ALUGUEL == <<"A", "L", "U", "G", "U", "E", "L">>

T_VENDAS == <<"V", "E", "N", "D", "A", "S">>

T_AB == <<"A", "B">>

T_Custo == <<"C", "u", "s", "t", "o">>

T_CUSTOS == <<"C", "U", "S", "T", "O", "S">>

T_DESPESAS == <<"D", "E", "S", "P", "E", "S", "A", "S">>

T_CMV == <<"C", "M", "V">>

T_CUSTO == <<"C", "U", "S", "T", "O">>

T_MERCADORIA == <<"M", "E", "R", "C", "A", "D", "O", "R", "I", "A">>

\* ------------------------------------------------------------------------
\* Decimal(str): the constructor of decimal.Decimal on a cleaned string
\* ------------------------------------------------------------------------

\* Decimal(s) accepts an optional sign, digits with at most one point and
\* at least one digit; anything else raises InvalidOperation.
DecimalOk(s) ==
    LET body == IF s # <<>> /\ Head(s) \in {"-", "+"} THEN Tail(s) ELSE s
    IN  /\ \A i \in 1..Len(body) : IsDigit(body[i]) \/ body[i] = "."
        /\ Cardinality({i \in 1..Len(body) : body[i] = "."}) <= 1
        /\ \E i \in 1..Len(body) : IsDigit(body[i])

\* value of Decimal(s) for a string s that DecimalOk accepts
DecimalVal(s) ==
    LET neg  == Head(s) = "-"
        body == IF Head(s) \in {"-", "+"} THEN Tail(s) ELSE s
        n    == DigitRun(body, 1)
        frac == IF n < Len(body) THEN SubSeq(body, n + 2, Len(body)) ELSE <<>>
        v    == DigitsToNat(SubSeq(body, 1, n)) * Scale + FracToFixed(frac)
    IN  IF neg THEN -v ELSE v

\* ------------------------------------------------------------------------
\* business_rules.py: BusinessRuleEngine
\* ------------------------------------------------------------------------

\* movement_type_mapping.get(grupo_principal); "" stands for None
movement_type_mapping(grupo) ==
    IF grupo = T_RECEITAS THEN "Receita"
    ELSE IF grupo = T_CUSTOS_E_DESPESAS THEN "Despesa"
    ELSE ""

\* _convert_to_decimal: a number is kept, a string is stripped, its commas
\* turned into points, everything but digits, point and minus dropped and
\* the rest handed to Decimal; any failure and any other type give 0.
convert_to_decimal(value) ==
    IF value.t = "num" THEN value.v
    ELSE IF value.t = "str"
    THEN LET c1      == ReplaceChar(Strip(value.s), ",", ".")
             cleaned == SelectSeq(c1, LAMBDA c : IsDigit(c) \/ c \in {".", "-"})
         IN  IF cleaned = <<>> THEN 0
             ELSE IF DecimalOk(cleaned) THEN DecimalVal(cleaned) ELSE 0
    ELSE 0

\* the rule table with the sign carried into the value (no final abs())
apply_movement_rules_signed(grupo_principal, valor_debito, valor_credito) ==
    LET mapped == movement_type_mapping(grupo_principal)
        mt     == IF mapped = ""
                  THEN (IF valor_credito > valor_debito THEN "Receita" ELSE "Despesa")
                  ELSE mapped
        pv     == IF mt = "Receita" THEN valor_credito ELSE valor_debito
    IN  [movement_type |-> mt, period_value |-> pv]

\* _apply_movement_rules: the rule table, the fallback on the larger side,
\* and the final abs()
apply_movement_rules(grupo_principal, valor_debito, valor_credito) ==
    LET mapped == movement_type_mapping(grupo_principal)
        mt     == IF mapped = ""
                  THEN (IF valor_credito > valor_debito THEN "Receita" ELSE "Despesa")
                  ELSE mapped
        pv     == IF mt = "Receita" THEN valor_credito ELSE valor_debito
    IN  [movement_type |-> mt, period_value |-> Abs(pv)]


\* ------------------------------------------------------------------------
\* database.py: the loop of create_analysis_and_entries over the account
\* records of analysis_data["financial_entries"]
\* ------------------------------------------------------------------------

\* dict.get(k): the value, or None when the key is absent
Get(d, k) == IF k \in DOMAIN d THEN d[k] ELSE None

\* Python truthiness of a value: None, "", 0 and {} are false
Truthy(v) ==
    \/ v.t = "str" /\ v.s # <<>>
    \/ v.t = "num" /\ v.v # 0
    \/ v.t = "dict" /\ DOMAIN v.d # {}

\* a or b
Or(a, b) == IF Truthy(a) THEN a ELSE b

Dict(d) == [t |-> "dict", d |-> d]

\* str(v) of a value that is a string; a number prints as digits only, which
\* none of the substring tests below depends on
TextOf(v) == IF v.t = "str" THEN v.s ELSE <<>>

\* _map_movement_type
map_movement_type(raw) ==
    IF ~Truthy(raw) THEN "Despesa"
    ELSE LET r == Lower(Strip(TextOf(raw)))
         IN  IF Contains(r, <<"r", "e", "c", "e", "i", "t">>) \/ r = <<"r">> THEN "Receita"
             ELSE IF Contains(r, <<"c", "u", "s", "t", "o">>) THEN "Custo"
             ELSE IF Contains(r, <<"d", "e", "d", "u", "c">>) THEN "Deducao"
             ELSE "Despesa"

\* inferred_movement and inferred_movement.lower().startswith('r')
InferredReceita(m) == m = "Receita"

\* _map_main_group
map_main_group(raw, inferred_movement) ==
    IF ~Truthy(raw)
    THEN (IF InferredReceita(inferred_movement) THEN "RECEITAS" ELSE "CUSTOS E DESPESAS")
    ELSE LET r == Upper(TextOf(raw))
         IN  IF Contains(r, <<"R", "E", "C", "E", "I", "T", "A">>) THEN "RECEITAS"
             ELSE IF Contains(r, <<"D", "E", "D", "U">>) THEN "DEDUCOES DA RECEITA"
             ELSE IF Contains(r, <<"C", "U", "S", "T", "O">>)
                     /\ ~Contains(r, <<"D", "E", "S", "P">>) THEN "CUSTOS"
             ELSE IF Contains(r, <<"D", "E", "S", "P">>) THEN "DESPESAS"
             ELSE IF Contains(r, T_CUSTOS_E_DESPESAS) THEN "CUSTOS E DESPESAS"
             ELSE IF InferredReceita(inferred_movement) THEN "RECEITAS"
             ELSE "CUSTOS E DESPESAS"

\* float(s) of a string succeeds on an optionally signed decimal numeral
\* surrounded by blanks (the alphabet of the model has no exponent)
FloatOk(s) == LET b == Strip(s) IN b # <<>> /\ DecimalOk(b)

\* [-\d.]+ : the first maximal run of minus signs, digits and points
RunChars(c) == IsDigit(c) \/ c \in {"-", "."}

RECURSIVE RunLen(_, _)
RunLen(s, i) == IF i <= Len(s) /\ RunChars(s[i]) THEN 1 + RunLen(s, i + 1) ELSE 0

FirstRun(s) ==
    LET starts == {i \in 1..Len(s) : RunChars(s[i])}
    IN  IF starts = {} THEN <<>>
        ELSE LET i == CHOOSE x \in starts : \A y \in starts : x <= y
             IN  SubSeq(s, i, i + RunLen(s, i) - 1)

\* _parse_localized_number
parse_localized_number(val) ==
    IF val.t = "none" THEN 0
    ELSE IF val.t = "num" THEN val.v
    ELSE IF val.t # "str" THEN 0
    ELSE IF FloatOk(val.s) THEN DecimalVal(Strip(val.s))
    ELSE LET s1 == RemoveChars(Upper(Strip(val.s)), {"C", "D"})
             s2 == ReplaceChar(RemoveChars(s1, {".", " "}), ",", ".")
             m  == FirstRun(s2)
         IN  IF m = <<>> THEN 0
             ELSE IF DecimalOk(m) THEN DecimalVal(m) ELSE 0

\* the value recovered from original_data for an entry whose period_value
\* came out as zero (lines 279-290)
recovered_value(original, movement_type) ==
    IF original.t # "dict" THEN 0
    ELSE LET o == original.d
             fallback == parse_localized_number(
                            Or(Or(Get(o, "valor"), Get(o, "saldo_atual")), Get(o, "saldo")))
             side == IF movement_type \in {"Despesa", "Deducao"}
                     THEN parse_localized_number(
                            Or(Or(Get(o, "debito"), Get(o, "debts")), Get(o, "debit")))
                     ELSE parse_localized_number(
                            Or(Or(Get(o, "credito"), Get(o, "credit")), Get(o, "credito_ou")))
         IN  IF side = 0 THEN fallback ELSE side

\* period_value as first computed from the record (lines 240-252)
first_period_value(conta) ==
    IF "period_value" \in DOMAIN conta THEN ToFloatSafe(conta["period_value"])
    ELSE IF "valor" \in DOMAIN conta THEN ToFloatSafe(conta["valor"])
    ELSE LET valor_debito  == ToFloatSafe(IF "valor_debito" \in DOMAIN conta
                                          THEN conta["valor_debito"] ELSE Num(0))
             valor_credito == ToFloatSafe(IF "valor_credito" \in DOMAIN conta
                                          THEN conta["valor_credito"] ELSE Num(0))
         IN  IF valor_debito > 0 THEN valor_debito ELSE valor_credito

\* One iteration of the loop: <<entry>> when the record yields an entry to
\* insert, <<>> when it is skipped (continue).
entry_of_conta(conta, analysis_id) ==
    LET movement_raw  == Or(Or(Get(conta, "movement_type"), Get(conta, "tipo")),
                            Get(conta, "movimento"))
        movement_type == map_movement_type(movement_raw)
        specific_account ==
            Or(Or(Or(Get(conta, "specific_account"), Get(conta, "conta_especifica")),
                  Get(conta, "conta")), Or(Get(conta, "descricao"), Str(<<>>)))
        pv0       == first_period_value(conta)
        original  == Or(Get(conta, "original_data"), Dict(<<>>))
        recovered == recovered_value(original, movement_type)
        main_raw  == Or(Get(conta, "main_group"), Get(conta, "grupo_principal"))
        entry(pv) == [analysis_id      |-> analysis_id,
                      main_group       |-> map_main_group(main_raw, movement_type),
                      specific_account |-> TextOf(specific_account),
                      movement_type    |-> movement_type,
                      period_value     |-> pv]
    IN  IF pv0 = 0
        THEN (IF recovered > 0 THEN <<entry(recovered)>> ELSE <<>>)
        ELSE <<entry(pv0)>>

\* entries_to_insert after the loop
RECURSIVE entries_to_insert(_, _)
entries_to_insert(contas, analysis_id) ==
    IF contas = <<>> THEN <<>>
    ELSE entry_of_conta(Head(contas), analysis_id)
            \o entries_to_insert(Tail(contas), analysis_id)


\* ------------------------------------------------------------------------
\* Inputs of the persistence state machine
\* ------------------------------------------------------------------------

\* the two calls that may be in flight at the same time
Calls == {1, 2}

\* (client_id, reference_year, reference_month) keys
Keys == {"k1"}

\* "1.000,00C"
Tok_1000C == <<"1", ".", "0", "0", "0", ",", "0", "0", "C">>

\* "-5,00"
Tok_neg5 == <<"-", "5", ",", "0", "0">>

\* "0,00"
Tok_zero == <<"0", ",", "0", "0">>

\* "6.235,12"
Tok_6235 == <<"6", ".", "2", "3", "5", ",", "1", "2">>

\* The parsed statements a submission may carry (analysis_data).  S1 is the
\* shape parse_balancete_from_text emits with its own summary; S3 names the
\* movement type directly and holds a record with a negative value, a
\* record with nothing to recover, a record whose value is recovered from
\* original_data, and a record that names no account under any of the
\* accepted keys; S4 has no records.
Statements == {"S1", "S3", "S4"}

StatementOf(name) ==
    IF name = "S1" THEN
        [resumo_periodo |-> Dict([total_receitas |-> Num(1000 * Scale),
                                  total_despesas_custos |-> Num(500 * Scale)]),
         financial_entries |-> <<
            [grupo_principal |-> Str(T_RECEITAS), conta_especifica |-> Str(T_VENDAS),
             valor_debito |-> Num(0), valor_credito |-> Num(1000 * Scale)],
            [grupo_principal |-> Str(T_CUSTOS_E_DESPESAS), conta_especifica |-> Str(T_ALUGUEL),
             valor_debito |-> Num(500 * Scale), valor_credito |-> Num(0)] >>]
    ELSE IF name = "S3" THEN
        [valores_periodo |-> Dict([receita |-> Str(Tok_1000C)]),
         financial_entries |-> <<
            [movement_type |-> Str(T_Receita), specific_account |-> Str(T_VENDAS),
             period_value |-> Str(Tok_neg5)],
            [movement_type |-> Str(T_Despesa), specific_account |-> Str(T_AB),
             valor |-> Str(Tok_zero)],
            [tipo |-> Str(T_Despesa), conta |-> Str(T_ALUGUEL),
             period_value |-> Num(0),
             original_data |-> Dict([debito |-> Str(Tok_6235)])],
            [movement_type |-> Str(T_Despesa), period_value |-> Str(Tok_6235)] >>]
    ELSE [financial_entries |-> <<>>]

\* summary as lines 93-121 build it from resumo_periodo, or else from
\* valores_periodo and resumo_balancete
summary_of(analysis_data) ==
    LET rp == Or(Get(analysis_data, "resumo_periodo"), Dict(<<>>))
        rb == Or(Get(analysis_data, "resumo_balancete"), Dict(<<>>))
        vp == Or(Get(analysis_data, "valores_periodo"), Dict(<<>>))
        tr == IF "receita" \in DOMAIN vp.d THEN <<vp.d["receita"]>>
              ELSE IF "receita" \in DOMAIN rb.d THEN <<rb.d["receita"]>>
              ELSE <<>>
        td == IF "despesa_custo" \in DOMAIN vp.d THEN <<vp.d["despesa_custo"]>>
              ELSE IF "despesa" \in DOMAIN vp.d THEN <<vp.d["despesa"]>>
              ELSE IF "despesa" \in DOMAIN rb.d THEN <<rb.d["despesa"]>>
              ELSE <<>>
    IN  IF Truthy(rp)
        THEN [total_receitas |->
                 IF "total_receitas" \in DOMAIN rp.d THEN <<rp.d["total_receitas"]>> ELSE <<>>,
              total_despesas_custos |->
                 IF "total_despesas_custos" \in DOMAIN rp.d
                 THEN <<rp.d["total_despesas_custos"]>> ELSE <<>>]
        ELSE [total_receitas |-> tr, total_despesas_custos |-> td]

\* the totals of analysis_payload (lines 152-155): None when the parser gave
\* no value
payload_totals(analysis_data) ==
    LET summary == summary_of(analysis_data)
    IN  [total_receitas |->
            IF summary.total_receitas = <<>> THEN None
            ELSE Num(ToFloatSafe(summary.total_receitas[1])),
         total_despesas |->
            IF summary.total_despesas_custos = <<>> THEN None
            ELSE Num(ToFloatSafe(summary.total_despesas_custos[1]))]

\* file contents handed to process_file, as the entry lists
\* AIService.process_financial_data extracts from them
Batches == {"B0", "B1", "B2"}

BatchOf(name) ==
    IF name = "B1" THEN
        << [specific_account |-> T_VENDAS, movement_type |-> "Receita",
            period_value |-> 1000 * Scale],
           [specific_account |-> T_ALUGUEL, movement_type |-> "Despesa",
            period_value |-> 500 * Scale] >>
    ELSE IF name = "B2" THEN
        << [specific_account |-> T_AB, movement_type |-> "Despesa",
            period_value |-> -(5 * Scale)] >>
    ELSE <<>>

\* file hashes computed by AIService.extract_file_metadata
Hashes == {"h1", "h2"}

\* account lists the LLM returns to the edge-function handler
LlmContas == {"L1", "L2"}

LlmContasOf(name) ==
    IF name = "L1" THEN
        << [grupo_principal |-> T_RECEITAS, conta_especifica |-> T_VENDAS,
            valor_debito |-> 0, valor_credito |-> 1000 * Scale] >>
    ELSE << [grupo_principal |-> T_CUSTOS_E_DESPESAS, conta_especifica |-> T_ALUGUEL,
             valor_debito |-> 500 * Scale, valor_credito |-> 0] >>


\* ------------------------------------------------------------------------
\* Tables
\* ------------------------------------------------------------------------

\* analysis_id of an entry inserted without one
NoId == 0

RowsOfKey(rows, key) == {r \in rows : r.key = key}

RowOfId(rows, id) == CHOOSE r \in rows : r.id = id

\* id the database gives to the next monthly_analyses row (rows are never
\* deleted by an ingestion path)
NextId(rows) == Cardinality(rows) + 1

RECURSIVE BagOfSeq(_)
BagOfSeq(seq) ==
    IF seq = <<>> THEN EmptyBag ELSE SetToBag({Head(seq)}) (+) BagOfSeq(Tail(seq))

\* the entries of one analysis
EntriesOf(bag, id) == [e \in {x \in DOMAIN bag : x.analysis_id = id} |-> bag[e]]

\* delete().eq('analysis_id', id)
DeleteEntries(bag, id) == [e \in {x \in DOMAIN bag : x.analysis_id # id} |-> bag[e]]

RECURSIVE SumValues(_, _)
SumValues(bag, es) ==
    IF es = {} THEN 0
    ELSE LET e == CHOOSE x \in es : TRUE
         IN  e.period_value * bag[e] + SumValues(bag, es \ {e})

\* sum of period_value over the entries of analysis id with the movement type
SumBy(bag, id, mt) ==
    SumValues(bag, {e \in DOMAIN bag : e.analysis_id = id /\ e.movement_type = mt})

\* The unique index monthly_analyses(client_id, reference_year,
\* reference_month): a plain INSERT of a second row for a key is refused.
UniqueViolation(rows, key) == RowsOfKey(rows, key) # {}

\* The totals trigger some database setups have: after a change of the
\* entries of analysis id its totals are recomputed from them.
RecomputeTotals(rows, bag, id) ==
    {IF r.id = id
     THEN [r EXCEPT !.total_receitas = Num(SumBy(bag, id, "Receita")),
                    !.total_despesas = Num(SumBy(bag, id, "Despesa"))]
     ELSE r : r \in rows}

AfterEntriesChange(rows, bag, id) ==
    IF schema.totals_trigger /\ id # NoId THEN RecomputeTotals(rows, bag, id) ELSE rows

NewRow(id, key, status) ==
    [id |-> id, key |-> key, status |-> status, total_receitas |-> None,
     total_despesas |-> None, total_entries |-> None, file_hash |-> "none"]

\* set the totals a payload carries, leave the others
WithTotals(r, totals) ==
    [r EXCEPT !.total_receitas =
                  IF totals.total_receitas.t = "none" THEN @ ELSE totals.total_receitas,
              !.total_despesas =
                  IF totals.total_despesas.t = "none" THEN @ ELSE totals.total_despesas]

\* an insert that ignores the row the key already has
Upsert_always_insert(rows, key, totals) ==
    rows \cup {WithTotals(NewRow(NextId(rows), key, "completed"), totals)}

\* upsert(analysis_payload, on_conflict="client_id,reference_year,
\* reference_month"): the row of the key takes the payload's columns, or a
\* new row is inserted; the payload always says status = 'completed'.
Upsert(rows, key, totals) ==
    IF RowsOfKey(rows, key) # {}
    THEN {IF r.key = key THEN WithTotals([r EXCEPT !.status = "completed"], totals)
          ELSE r : r \in rows}
    ELSE rows \cup {WithTotals(NewRow(NextId(rows), key, "completed"), totals)}

\* update(...).eq('id', id) on monthly_analyses
UpdateRow(rows, id, new) == {IF r.id = id THEN new ELSE r : r \in rows}

\* update(...).eq('id', id) on file_uploads
SetUploadStatus(ups, id, st) ==
    {IF u.id = id THEN [u EXCEPT !.status = st] ELSE u : u \in ups}


\* ------------------------------------------------------------------------
\* database.py: create_analysis_and_entries, one action per database call
\* ------------------------------------------------------------------------

IdleLocal == [op |-> "none"]

Ev(op, c, outcome) == [op |-> op, call |-> c, outcome |-> outcome]

\* the call c is left with the exception of a failed database call
Raise(c, op) ==
    /\ pc' = [pc EXCEPT ![c] = "idle"]
    /\ local' = [local EXCEPT ![c] = IdleLocal]
    /\ ev' = [op |-> op, call |-> c, outcome |-> "raised", key |-> local[c].key,
              stmt |-> local[c].stmt, analysis_id |-> local[c].analysis_id]

\* lines 84-187: build the payload and upsert the analysis row
CaeUpsert(c, key, stmt) ==
    /\ pc[c] = "idle"
    /\ \A b \in Calls : b < c => pc[b] # "idle"
    /\ nsub < MaxSubmissions
    /\ nsub' = nsub + 1
    /\ \/ /\ monthly_analyses' =
                Upsert(monthly_analyses, key, payload_totals(StatementOf(stmt)))
          /\ local' = [local EXCEPT ![c] =
                [op |-> "cae", key |-> key, stmt |-> stmt,
                 analysis_id |-> (CHOOSE r \in monthly_analyses' : r.key = key).id]]
          /\ pc' = [pc EXCEPT ![c] = "cae_delete"]
          /\ ev' = [op |-> "cae_upsert", call |-> c, outcome |-> "ok", key |-> key,
                    stmt |-> stmt, analysis_id |-> local'[c].analysis_id]
       \/ /\ ev' = [op |-> "cae_upsert", call |-> c, outcome |-> "raised", key |-> key,
                    stmt |-> stmt, analysis_id |-> NoId]
          /\ UNCHANGED <<monthly_analyses, pc, local>>
    /\ UNCHANGED <<schema, financial_entries, file_uploads, content>>

\* line 190: delete the old entries of the analysis
CaeDelete(c) ==
    /\ pc[c] = "cae_delete"
    /\ \/ /\ financial_entries' = DeleteEntries(financial_entries, local[c].analysis_id)
          /\ monthly_analyses' = AfterEntriesChange(monthly_analyses, financial_entries',
                                                    local[c].analysis_id)
          /\ pc' = [pc EXCEPT ![c] = "cae_insert"]
          /\ ev' = Ev("cae_delete", c, "ok")
          /\ UNCHANGED local
       \/ /\ Raise(c, "cae_delete")
          /\ UNCHANGED <<financial_entries, monthly_analyses>>
    /\ UNCHANGED <<schema, file_uploads, nsub, content>>

\* lines 192-322: build entries_to_insert and insert them in one call
CaeInsert(c) ==
    LET entries == entries_to_insert(StatementOf(local[c].stmt).financial_entries,
                                     local[c].analysis_id)
    IN  /\ pc[c] = "cae_insert"
        /\ \/ /\ financial_entries' = financial_entries (+) BagOfSeq(entries)
              /\ monthly_analyses' =
                    IF entries = <<>> THEN monthly_analyses
                    ELSE AfterEntriesChange(monthly_analyses, financial_entries',
                                            local[c].analysis_id)
              /\ pc' = [pc EXCEPT ![c] = "cae_totals"]
              /\ ev' = Ev("cae_insert", c, "ok")
              /\ UNCHANGED local
           \/ /\ entries # <<>>
              /\ Raise(c, "cae_insert")
              /\ UNCHANGED <<financial_entries, monthly_analyses>>
        /\ UNCHANGED <<schema, file_uploads, nsub, content>>

\* lines 324-349: stamp processing_completed_at and write the totals of the
\* payload again; a failure of either update is logged and swallowed
CaeTotals(c) ==
    LET totals == payload_totals(StatementOf(local[c].stmt))
        apply(r) == WithTotals(r, totals)
    IN  /\ pc[c] = "cae_totals"
        /\ \/ /\ monthly_analyses' = UpdateRow(monthly_analyses, local[c].analysis_id,
                                                  apply(RowOfId(monthly_analyses, local[c].analysis_id)))
              /\ ev' = Ev("cae_totals", c, "ok")
           \/ /\ totals.total_receitas.t # "none" \/ totals.total_despesas.t # "none"
              /\ UNCHANGED monthly_analyses
              /\ ev' = Ev("cae_totals", c, "swallowed")
        /\ pc' = [pc EXCEPT ![c] = "cae_upload"]
        /\ UNCHANGED <<schema, financial_entries, file_uploads, local, nsub, content>>

\* lines 351-357: mark the file upload completed and return the analysis id
CaeUpload(c) ==
    /\ pc[c] = "cae_upload"
    /\ \/ /\ file_uploads' = SetUploadStatus(file_uploads, c, "completed")
          /\ content' = (local[c].analysis_id :> local[c].stmt) @@ content
          /\ pc' = [pc EXCEPT ![c] = "idle"]
          /\ local' = [local EXCEPT ![c] = IdleLocal]
          /\ ev' = [op |-> "cae_return", call |-> c, outcome |-> "ok", key |-> local[c].key,
                    stmt |-> local[c].stmt, analysis_id |-> local[c].analysis_id]
       \/ /\ Raise(c, "cae_upload")
          /\ UNCHANGED <<file_uploads, content>>
    /\ UNCHANGED <<schema, monthly_analyses, financial_entries, nsub>>


\* ------------------------------------------------------------------------
\* routers/monthly_analyses.py: pre_check_file and process_file, each one
\* database transaction
\* ------------------------------------------------------------------------

\* AIService.check_for_duplicates: an existing analysis with the same file
\* hash is a duplicate; otherwise, when analyses exist for the period, the
\* language model decides (dup says what it answered); with none existing,
\* or when the model's answer cannot be used, the file is not a duplicate.
check_for_duplicates(existing, hash, dup) ==
    \/ \E a \in existing : a.file_hash = hash
    \/ existing # {} /\ dup

\* pre_check_file: returns the duplicate, or inserts a 'pending' analysis
\* and a 'pre_checked' file upload and commits; an exception rolls back.
PreCheck(key, hash, dup) ==
    LET existing == RowsOfKey(monthly_analyses, key)
        id       == NextId(monthly_analyses)
    IN  /\ IF check_for_duplicates(existing, hash, dup)
           THEN /\ ev' = [op |-> "pre_check", call |-> 0, outcome |-> "duplicate", key |-> key]
                /\ UNCHANGED <<monthly_analyses, file_uploads>>
           ELSE IF UniqueViolation(monthly_analyses, key)
           THEN /\ ev' = [op |-> "pre_check", call |-> 0, outcome |-> "raised", key |-> key]
                /\ UNCHANGED <<monthly_analyses, file_uploads>>
           ELSE \/ /\ monthly_analyses' = monthly_analyses \cup
                         {[NewRow(id, key, "pending") EXCEPT !.file_hash = hash]}
                   /\ file_uploads' = file_uploads \cup
                         {[id |-> Cardinality(file_uploads) + 1, analysis_id |-> id,
                           status |-> "pre_checked", entries_created |-> 0]}
                   /\ ev' = [op |-> "pre_check", call |-> 0, outcome |-> "ok", key |-> key]
                \/ /\ ev' = [op |-> "pre_check", call |-> 0, outcome |-> "raised", key |-> key]
                   /\ UNCHANGED <<monthly_analyses, file_uploads>>
        /\ UNCHANGED <<schema, financial_entries, pc, local, nsub, content>>

\* the rows process_file inserts for the entries of a batch whose position
\* is not in failing
RECURSIVE BatchRows(_, _, _, _)
BatchRows(batch, i, failing, id) ==
    IF i > Len(batch) THEN <<>>
    ELSE (IF i \in failing THEN <<>>
          ELSE << [analysis_id      |-> id,
                   main_group       |-> "",
                   specific_account |-> batch[i].specific_account,
                   movement_type    |-> batch[i].movement_type,
                   period_value     |-> batch[i].period_value] >>)
         \o BatchRows(batch, i + 1, failing, id)

RECURSIVE SumSeq(_, _)
SumSeq(batch, mt) ==
    IF batch = <<>> THEN 0
    ELSE (IF Head(batch).movement_type = mt THEN Head(batch).period_value ELSE 0)
         + SumSeq(Tail(batch), mt)

\* process_file(analysis_id = id, file = batch, force_process = force).
\* failing is the set of positions whose INSERT raises; aborted says whether
\* the transaction is unusable after a failed statement (as in PostgreSQL)
\* or the UPDATE/commit fails; marked says whether the final UPDATE to
\* 'error' succeeds.
ProcessFile(id, batch, force, failing, aborted, marked) ==
    LET analysis == RowOfId(monthly_analyses, id)
        fe       == BatchOf(batch)
        inserted == financial_entries (+) BagOfSeq(BatchRows(fe, 1, failing, id))
        done(r)  == [r EXCEPT !.status = "completed",
                              !.total_receitas = Num(SumSeq(fe, "Receita")),
                              !.total_despesas = Num(SumSeq(fe, "Despesa")),
                              !.total_entries = Num(Len(fe))]
        err(r)   == [r EXCEPT !.status = "error"]
        E(outcome) == [op |-> "process_file", call |-> 0, outcome |-> outcome,
                       id |-> id, batch |-> batch, force |-> force,
                       failed |-> Cardinality(failing)]
    IN  /\ nsub < MaxSubmissions
        /\ nsub' = nsub + 1
        /\ failing \subseteq 1..Len(fe)
        /\ IF \A r \in monthly_analyses : r.id # id
           THEN /\ ev' = E("not_found")
                /\ UNCHANGED <<monthly_analyses, financial_entries, file_uploads, content>>
           ELSE IF ~force /\ analysis.status = "completed"
           THEN /\ ev' = E("already_processed")
                /\ UNCHANGED <<monthly_analyses, financial_entries, file_uploads, content>>
           ELSE IF fe = <<>>
           THEN /\ ev' = E("no_data")
                /\ UNCHANGED <<monthly_analyses, financial_entries, file_uploads, content>>
           ELSE IF aborted
           THEN /\ ev' = E("error")
                /\ monthly_analyses' =
                      IF marked THEN UpdateRow(monthly_analyses, id, err(analysis))
                      ELSE monthly_analyses
                /\ UNCHANGED <<financial_entries, file_uploads, content>>
           ELSE /\ ev' = E("ok")
                /\ financial_entries' = inserted
                /\ monthly_analyses' =
                      LET rows == AfterEntriesChange(monthly_analyses, inserted, id)
                      IN  UpdateRow(rows, id, done(RowOfId(rows, id)))
                /\ file_uploads' =
                      {IF u.analysis_id = id THEN [u EXCEPT !.status = "completed"] ELSE u :
                          u \in file_uploads}
                /\ content' = (id :> IF failing = {} THEN batch ELSE "partial") @@ content
        /\ UNCHANGED <<schema, pc, local>>

\* ------------------------------------------------------------------------
\* edge_functions/process_balancete.py: handler
\* ------------------------------------------------------------------------

\* saida_final (lines 50-63)
RECURSIVE saida_final(_, _)
saida_final(contas, id) ==
    IF contas = <<>> THEN <<>>
    ELSE LET conta == Head(contas)
             tipo  == IF conta.grupo_principal = T_RECEITAS THEN "Receita" ELSE "Despesa"
             valor == IF tipo = "Receita" THEN conta.valor_credito ELSE conta.valor_debito
         IN  << [analysis_id      |-> id,
                 main_group       |-> "",
                 specific_account |-> conta.conta_especifica,
                 movement_type    |-> tipo,
                 period_value     |-> valor] >> \o saida_final(Tail(contas), id)

\* handler: insert a 'completed' analysis (a failure leaves analysis_id
\* None), then insert the entries; created says whether the first insert
\* went through, stored whether the second did.
Handler(key, contas, created, stored) ==
    LET ok  == created /\ ~UniqueViolation(monthly_analyses, key)
        id  == IF ok THEN NextId(monthly_analyses) ELSE NoId
        rows == IF ok THEN monthly_analyses \cup {NewRow(id, key, "completed")}
                ELSE monthly_analyses
        bag == financial_entries (+) BagOfSeq(saida_final(LlmContasOf(contas), id))
    IN  /\ nsub < MaxSubmissions
        /\ nsub' = nsub + 1
        /\ IF stored
           THEN /\ financial_entries' = bag
                /\ monthly_analyses' = AfterEntriesChange(rows, bag, id)
           ELSE /\ monthly_analyses' = rows
                /\ UNCHANGED financial_entries
        /\ ev' = [op |-> "handler", call |-> 0, key |-> key, id |-> id,
                  outcome |-> IF stored THEN "ok" ELSE "raised"]
        /\ UNCHANGED <<schema, file_uploads, pc, local, content>>

\* ------------------------------------------------------------------------
\* The persistence state machine
\* ------------------------------------------------------------------------

InitDb ==
    /\ schema \in [totals_trigger : BOOLEAN]
    /\ monthly_analyses = {}
    /\ financial_entries = EmptyBag
    /\ file_uploads = {[id |-> c, analysis_id |-> NoId, status |-> "processing",
                         entries_created |-> 0] : c \in Calls}
    /\ pc = [c \in Calls |-> "idle"]
    /\ local = [c \in Calls |-> IdleLocal]
    /\ nsub = 0
    /\ ev = [op |-> "init", call |-> 0, outcome |-> "ok"]
    /\ content = <<>>


\* ------------------------------------------------------------------------
\* data_validator.py: DataValidator
\* ------------------------------------------------------------------------

\* year of datetime.now() at the time of the run
CurrentYear == 2025

\* str.rfind(c): the last position of c, 0 when there is none
RFind(s, c) ==
    LET ps == {i \in 1..Len(s) : s[i] = c}
    IN  IF ps = {} THEN 0 ELSE CHOOSE i \in ps : \A j \in ps : j <= i

\* number of occurrences of c in s
CountChar(s, c) == Cardinality({i \in 1..Len(s) : s[i] = c})

\* _clean_numeric_string
clean_numeric_string(value) ==
    LET c0 == RemoveChars(Strip(value), {"(", ")"})
        hasComma == CountChar(c0, ",") > 0
        hasDot   == CountChar(c0, ".") > 0
        c1 == IF hasComma /\ hasDot
              THEN (IF RFind(c0, ",") > RFind(c0, ".")
                    THEN ReplaceChar(RemoveChars(c0, {"."}), ",", ".")
                    ELSE RemoveChars(c0, {","}))
              ELSE IF hasComma
              THEN (IF CountChar(c0, ",") = 1 /\ Len(c0) - RFind(c0, ",") = 2
                    THEN ReplaceChar(c0, ",", ".")
                    ELSE RemoveChars(c0, {","}))
              ELSE c0
    IN  SelectSeq(c1, LAMBDA c : IsDigit(c) \/ c \in {".", "-"})

\* _validate_single_valor: the errors it reports for one value
validate_single_valor(valor, field) ==
    IF valor.t \notin {"num", "str"} THEN {[field |-> field, kind |-> "type"]}
    ELSE IF valor.t = "str" /\ ~DecimalOk(clean_numeric_string(valor.s))
    THEN {[field |-> field, kind |-> "invalid"]}
    ELSE {}

\* _validate_grupo_principal
validate_grupo_principal(grupo) ==
    IF grupo.t # "str" THEN {[field |-> "grupo_principal", kind |-> "type"]}
    ELSE LET g == Upper(Strip(grupo.s))
         IN  IF g = <<>> THEN {[field |-> "grupo_principal", kind |-> "empty"]}
             ELSE IF g \notin {T_RECEITAS, T_CUSTOS_E_DESPESAS}
             THEN {[field |-> "grupo_principal", kind |-> "invalid"]}
             ELSE {}

\* _validate_conta_especifica (names of the model stay far below the upper
\* length limit of 200)
validate_conta_especifica(conta) ==
    IF conta.t # "str" THEN {[field |-> "conta_especifica", kind |-> "type"]}
    ELSE LET c == Strip(conta.s)
         IN  IF c = <<>> THEN {[field |-> "conta_especifica", kind |-> "empty"]}
             ELSE IF Len(c) < 3 THEN {[field |-> "conta_especifica", kind |-> "short"]}
             ELSE {}

ContaRequired == {"grupo_principal", "conta_especifica", "valor_debito", "valor_credito"}

\* _validate_conta: the errors of one account record
validate_conta(conta) ==
    IF ContaRequired \ DOMAIN conta # {}
    THEN {[field |-> f, kind |-> "missing"] : f \in ContaRequired \ DOMAIN conta}
    ELSE validate_grupo_principal(conta["grupo_principal"])
            \cup validate_conta_especifica(conta["conta_especifica"])
            \cup validate_single_valor(conta["valor_debito"], "valor_debito")
            \cup validate_single_valor(conta["valor_credito"], "valor_credito")

\* _validate_contas: the errors of the account list, each with the position
\* of its record
validate_contas(contas) ==
    UNION {{[index |-> i, field |-> e.field, kind |-> e.kind] : e \in validate_conta(contas[i])} :
           i \in 1..Len(contas)}

\* _validate_basic_structure
validate_basic_structure(data) ==
    {[index |-> 0, field |-> f, kind |-> "missing"] :
        f \in {"cliente", "data_final", "contas"} \ DOMAIN data}
    \cup {[index |-> 0, field |-> f, kind |-> "type"] :
        f \in {g \in {"cliente", "data_final"} \cap DOMAIN data : data[g].t # "str"}}

\* _validate_cliente
validate_cliente(cliente) ==
    LET c == Strip(cliente.s)
    IN  IF c = <<>> THEN {[index |-> 0, field |-> "cliente", kind |-> "empty"]}
        ELSE IF Len(c) < 3 THEN {[index |-> 0, field |-> "cliente", kind |-> "short"]}
        ELSE {}

DaysIn(y, m) ==
    IF m = 2 THEN (IF (y % 4 = 0 /\ y % 100 # 0) \/ y % 400 = 0 THEN 29 ELSE 28)
    ELSE IF m \in {4, 6, 9, 11} THEN 30 ELSE 31

\* _validate_data_final: the pattern \d{4}-\d{2}-\d{2}, a real calendar date,
\* and a year between ten years back and one year ahead
validate_data_final(data_final) ==
    LET d    == Strip(data_final.s)
        E(k) == {[index |-> 0, field |-> "data_final", kind |-> k]}
        shaped == /\ Len(d) = 10
                  /\ \A i \in {1, 2, 3, 4, 6, 7, 9, 10} : IsDigit(d[i])
                  /\ d[5] = "-" /\ d[8] = "-"
        y == DigitsToNat(SubSeq(d, 1, 4))
        m == DigitsToNat(SubSeq(d, 6, 7))
        dd == DigitsToNat(SubSeq(d, 9, 10))
    IN  IF d = <<>> THEN E("empty")
        ELSE IF ~shaped THEN E("format")
        ELSE IF y < 1 \/ m \notin 1..12 \/ dd \notin 1..DaysIn(y, m) THEN E("invalid")
        ELSE IF y < CurrentYear - 10 THEN E("old")
        ELSE IF y > CurrentYear + 1 THEN E("future")
        ELSE {}

\* a validation that looks at the account list only
validate_structure_accounts_only(data) ==
    IF "contas" \in DOMAIN data THEN validate_contas(data["contas"]) ELSE {}

\* validate_structure: the errors of the whole input; the input is valid
\* when there is none
validate_structure(data) ==
    IF validate_basic_structure(data) # {} THEN validate_basic_structure(data)
    ELSE validate_cliente(data["cliente"])
            \cup validate_data_final(data["data_final"])
            \cup validate_contas(data["contas"])

\* ------------------------------------------------------------------------
\* business_rules.py: process_accounts
\* ------------------------------------------------------------------------

\* _process_single_account: <<entry>> for an account with a movement, <<>>
\* for one that is skipped or whose processing raises (a name that is not a
\* string has no strip())
process_single_account(conta) ==
    LET grupo_principal  == Upper(Strip(TextOf(Get(conta, "grupo_principal"))))
        conta_especifica == Strip(TextOf(Get(conta, "conta_especifica")))
        valor_debito  == convert_to_decimal(IF "valor_debito" \in DOMAIN conta
                                            THEN conta["valor_debito"] ELSE Num(0))
        valor_credito == convert_to_decimal(IF "valor_credito" \in DOMAIN conta
                                            THEN conta["valor_credito"] ELSE Num(0))
        rule == apply_movement_rules(grupo_principal, valor_debito, valor_credito)
        raises == \E f \in {"grupo_principal", "conta_especifica"} \cap DOMAIN conta :
                      conta[f].t # "str"
    IN  IF raises \/ rule.period_value <= 0 THEN <<>>
        ELSE << [main_group       |-> grupo_principal,
                 specific_account |-> conta_especifica,
                 movement_type    |-> rule.movement_type,
                 period_value     |-> rule.period_value] >>

RECURSIVE process_accounts(_)
process_accounts(contas) ==
    IF contas = <<>> THEN <<>>
    ELSE process_single_account(Head(contas)) \o process_accounts(Tail(contas))

\* ------------------------------------------------------------------------
\* The classifier applied to enumerated inputs
\* ------------------------------------------------------------------------

RuleGroups == {T_RECEITAS, T_CUSTOS_E_DESPESAS, T_ATIVO, <<>>}

RuleValues == {v * Scale : v \in (-MaxValue)..MaxValue}

RulesIdle ==
    /\ r_pc = "off"
    /\ r_in = IdleLocal
    /\ r_out = IdleLocal

PipeIdle ==
    /\ p_pc = "off"
    /\ p_data = IdleLocal
    /\ p_entries = <<>>
    /\ p_stored = <<>>
    /\ p_quarantine = "none"
    /\ p_result = IdleLocal

NormIdle ==
    /\ n_pc = "off"
    /\ n_in = <<>>
    /\ n_out = IdleLocal

ParseIdle ==
    /\ l_pc = [at |-> "off", page |-> 0, line |-> 0]
    /\ l_lines = <<>>
    /\ l_subgroup = None
    /\ l_entries = <<>>
    /\ l_ev = <<>>

ReconIdle ==
    /\ c_pc = [at |-> "off", i |-> 0]
    /\ c_in = <<>>
    /\ c_out = <<>>
    /\ c_ev = <<>>

TextIdle ==
    /\ t_pc = [at |-> "off", line |-> 0]
    /\ t_lines = <<>>
    /\ t_grupo = None
    /\ t_subgrupo = None
    /\ t_entries = <<>>
    /\ t_ev = <<>>

InitRules ==
    /\ r_pc = "input"
    /\ r_in \in [grupo_principal : RuleGroups, valor_debito : RuleValues,
                 valor_credito : RuleValues]
    /\ r_out = IdleLocal

\* _apply_movement_rules(grupo_principal, valor_debito, valor_credito)
Classify ==
    /\ r_pc = "input"
    /\ r_out' = apply_movement_rules(r_in.grupo_principal, r_in.valor_debito,
                                     r_in.valor_credito)
    /\ r_pc' = "done"
    /\ UNCHANGED r_in

\* ------------------------------------------------------------------------
\* The currency normalizers applied to enumerated tokens
\* ------------------------------------------------------------------------

\* str.find(c): the first position of c, 0 when there is none
Find(s, c) ==
    IF \E i \in 1..Len(s) : s[i] = c
    THEN CHOOSE i \in 1..Len(s) : s[i] = c /\ \A j \in 1..(i - 1) : s[j] # c
    ELSE 0

\* python_parser.py: _limpar_valor; float() raising ValueError gives 0.0
limpar_valor(valor_str) ==
    LET s1 == RemoveChars(Upper(Strip(valor_str)), {"D", "C", "."})
        s2 == ReplaceChar(s1, ",", ".")
    IN  IF FloatOk(s2) THEN DecimalVal(Strip(s2)) ELSE 0

\* the outcome of a call that raised
Raised == [t |-> "raised"]

\* parser_test.py: parse_value; the ValueError of float() is not caught
parse_value(value_str) ==
    IF value_str = <<>> THEN Num(0)
    ELSE LET cleaned == RemoveChars(value_str, {"D", "C"} \cup Whitespace)
             k       == Find(cleaned, ",")
             rest    == SubSeq(cleaned, k + 1, Len(cleaned))
             k2      == Find(rest, ",")
             integer_part == RemoveChars(SubSeq(cleaned, 1, k - 1), {"."})
             decimal_part == IF k2 = 0 THEN rest ELSE SubSeq(rest, 1, k2 - 1)
             text    == IF k > 0 THEN integer_part \o <<".">> \o decimal_part
                        ELSE RemoveChars(cleaned, {"."})
         IN  IF FloatOk(text) THEN Num(DecimalVal(Strip(text))) ELSE Raised

\* tokens: one digit, an optional separator, an optional group of
\* three digits, an optional separator, up to two digits, an optional
\* movement suffix
NormTokens ==
    {a \o s1 \o b \o s2 \o c \o suf :
        a \in {<<"1">>, <<"0">>},
        s1 \in {<<>>, <<".">>, <<",">>},
        b \in {<<>>, <<"2", "3", "4">>},
        s2 \in {<<>>, <<".">>, <<",">>},
        c \in {<<>>, <<"5">>, <<"5", "6">>, <<"0", "0">>},
        suf \in {<<>>, <<"C">>, <<"D">>}}

InitNorm ==
    /\ n_pc = "input"
    /\ n_in \in NormTokens
    /\ n_out = IdleLocal

\* every normalizer of the code base applied to the token
Normalize ==
    /\ n_pc = "input"
    /\ n_out' = [to_float_safe      |-> ToFloatSafe(Str(n_in)),
                 convert_to_decimal |-> convert_to_decimal(Str(n_in)),
                 cleaned            |-> clean_numeric_string(n_in),
                 limpar_valor       |-> limpar_valor(n_in),
                 parse_value        |-> parse_value(n_in)]
    /\ n_pc' = "done"
    /\ UNCHANGED n_in

\* ------------------------------------------------------------------------
\* database.py: the record loop of create_analysis_and_entries applied to
\* enumerated record lists, one action per record
\* ------------------------------------------------------------------------

\* account records as the parsers and the language model emit them: a cost
\* with value 0 and the amount under original_data.debito; an expense with
\* value 0 and the amount under original_data.debito; a revenue with value
\* "0,00" and the amount under original_data.credito; an expense with value
\* "0,00" and nothing to recover; the record shape of
\* parse_balancete_from_text under RECEITAS, with a credit only and with a
\* debit and a credit; a revenue with its value; a revenue with value 0 and
\* the amount under original_data.saldo_atual
ReconRecords ==
    {[movement_type |-> Str(T_Custo), specific_account |-> Str(T_CMV),
      period_value |-> Num(0),
      original_data |-> Dict([debito |-> Str(Tok_6235), credito |-> Str(Tok_zero)])],
     [tipo |-> Str(T_Despesa), conta |-> Str(T_ALUGUEL), period_value |-> Num(0),
      original_data |-> Dict([debito |-> Str(Tok_6235)])],
     [movement_type |-> Str(T_Receita), specific_account |-> Str(T_VENDAS),
      period_value |-> Str(Tok_zero),
      original_data |-> Dict([credito |-> Str(Tok_1000C)])],
     [movement_type |-> Str(T_Despesa), specific_account |-> Str(T_AB),
      valor |-> Str(Tok_zero)],
     [grupo_principal |-> Str(T_RECEITAS), conta_especifica |-> Str(T_VENDAS),
      valor_debito |-> Num(0), valor_credito |-> Num(1000 * Scale)],
     [grupo_principal |-> Str(T_RECEITAS), conta_especifica |-> Str(T_AB),
      valor_debito |-> Num(500 * Scale), valor_credito |-> Num(1000 * Scale)],
     [movement_type |-> Str(T_Receita), specific_account |-> Str(T_VENDAS),
      period_value |-> Str(Tok_1000C)],
     [movement_type |-> Str(T_Receita), specific_account |-> Str(T_ALUGUEL),
      period_value |-> Num(0),
      original_data |-> Dict([saldo_atual |-> Str(Tok_6235)])]}

InitRecon ==
    /\ c_pc = [at |-> "loop", i |-> 1]
    /\ c_in \in UNION {[1..n -> ReconRecords] : n \in 0..MaxContas}
    /\ c_out = <<>>
    /\ c_ev = <<>>

\* one iteration of `for conta in analysis_data.get("financial_entries", [])`
ReconRecord ==
    /\ c_pc.at = "loop"
    /\ c_pc.i <= Len(c_in)
    /\ c_out' = c_out \o entry_of_conta(c_in[c_pc.i], 1)
    /\ c_ev' = Append(c_ev, Len(c_out'))
    /\ c_pc' = [c_pc EXCEPT !.i = @ + 1]
    /\ UNCHANGED c_in

\* the loop is over: entries_to_insert is what the bulk insert is given
ReconDone ==
    /\ c_pc.at = "loop"
    /\ c_pc.i > Len(c_in)
    /\ c_pc' = [c_pc EXCEPT !.at = "done"]
    /\ UNCHANGED <<c_in, c_out, c_ev>>

\* ------------------------------------------------------------------------
\* parser_test.py: parse_balancete_for_db, one action per line read
\* ------------------------------------------------------------------------

MaxLines == 3

\* the length of the run of whitespace that starts at position i
RECURSIVE SpaceRun(_, _)
SpaceRun(s, i) ==
    IF i <= Len(s) /\ s[i] \in Whitespace THEN 1 + SpaceRun(s, i + 1) ELSE 0

\* re.sub(r'\s{3,}', ' ', raw_line): runs of three or more blanks become one
RECURSIVE CollapseFrom(_, _)
CollapseFrom(s, i) ==
    IF i > Len(s) THEN <<>>
    ELSE LET n == SpaceRun(s, i)
         IN  IF n >= 3 THEN <<" ">> \o CollapseFrom(s, i + n)
             ELSE IF n > 0 THEN SubSeq(s, i, i + n - 1) \o CollapseFrom(s, i + n)
             ELSE <<s[i]>> \o CollapseFrom(s, i + 1)

\* line = re.sub(r'\s{3,}', ' ', raw_line).strip()
clean_line(raw_line) == Strip(CollapseFrom(raw_line, 1))

\* the maximal runs of non-blank characters of s from position i on, each
\* as its first and last position
RECURSIVE WordsFrom(_, _)
WordsFrom(s, i) ==
    IF i > Len(s) THEN <<>>
    ELSE IF s[i] \in Whitespace THEN WordsFrom(s, i + 1)
    ELSE LET j == CHOOSE k \in i..Len(s) :
                      /\ \A m \in i..k : s[m] \notin Whitespace
                      /\ (k = Len(s) \/ s[k + 1] \in Whitespace)
         IN  <<[from |-> i, to |-> j]>> \o WordsFrom(s, j + 1)

\* [\d.,]+
IsAmount(w) == w # <<>> /\ \A i \in 1..Len(w) : IsDigit(w[i]) \/ w[i] \in {".", ","}

\* [\d.,]+[DC]?
IsBalance(w) ==
    \/ IsAmount(w)
    \/ Len(w) >= 2 /\ w[Len(w)] \in {"D", "C"} /\ IsAmount(SubSeq(w, 1, Len(w) - 1))

\* \[(\d+)\]
IsCode(w) ==
    /\ Len(w) >= 3
    /\ w[1] = "[" /\ w[Len(w)] = "]"
    /\ \A i \in 2..(Len(w) - 1) : IsDigit(w[i])

\* conta_pattern.search(line): the pattern is anchored at both ends and every
\* \s+ of it separates two non-blank items, so a match is the line whose
\* last six words are "-", the bracketed code and the four amounts, after a
\* description (.+? takes the shortest prefix, which ends before the blanks
\* in front of the "-"); None when the line does not match
conta_pattern(line) ==
    LET w == WordsFrom(line, 1)
        n == Len(w)
        word(k) == SubSeq(line, w[k].from, w[k].to)
    IN  IF /\ n >= 7
           /\ w[1].from = 1
           /\ word(n - 5) = <<"-">>
           /\ IsCode(word(n - 4))
           /\ IsBalance(word(n - 3))
           /\ IsAmount(word(n - 2))
           /\ IsAmount(word(n - 1))
           /\ IsBalance(word(n))
        THEN [descricao      |-> SubSeq(line, 1, w[n - 6].to),
              codigo         |-> SubSeq(line, w[n - 4].from + 1, w[n - 4].to - 1),
              saldo_anterior |-> word(n - 3),
              debito         |-> word(n - 2),
              credito        |-> word(n - 1),
              saldo_atual    |-> word(n)]
        ELSE None

\* str.isupper(): some cased character, and no lowercase one
isupper(s) ==
    /\ \E i \in 1..Len(s) : \E k \in 1..Len(UpperCase) : s[i] = UpperCase[k]
    /\ \A i \in 1..Len(s) : \A k \in 1..Len(LowerCase) : s[i] # LowerCase[k]

\* codigo_to_group and the refinement of code 5 by the description
group_info(primeiro_digito, descricao) ==
    IF primeiro_digito = "4"
    THEN [main_group |-> Str(T_RECEITAS), movement_type |-> Str(T_Receita)]
    ELSE IF \E palavra \in {T_CMV, T_CUSTO, T_MERCADORIA} :
                Contains(Upper(descricao), palavra)
         THEN [main_group |-> Str(T_CUSTOS), movement_type |-> Str(T_Custo)]
         ELSE [main_group |-> Str(T_DESPESAS), movement_type |-> Str(T_Despesa)]

\* credito - debito for code 4, debito - credito for code 5
period_value_debit_first(primeiro_digito, debito_val, credito_val) ==
    Num(debito_val.v - credito_val.v)

period_value(primeiro_digito, debito_val, credito_val) ==
    IF primeiro_digito = "4"
    THEN Num(credito_val.v - debito_val.v)
    ELSE Num(debito_val.v - credito_val.v)

\* primeiro_digito not in ["4", "5"] leaves the line out
discarded_every_code(primeiro_digito) == FALSE

discarded(primeiro_digito) == primeiro_digito \notin {"4", "5"}

\* descricao.isupper() and len(codigo) <= 5
is_subgroup_any_code(descricao, codigo) == isupper(descricao)

is_subgroup(descricao, codigo) == isupper(descricao) /\ Len(codigo) <= 5

\* the body of the line loop for one raw line: what the line did, the entry
\* it appended and the current_subgroup it leaves
read_line(raw_line, current_subgroup) ==
    LET line  == clean_line(raw_line)
        match == conta_pattern(line)
    IN  IF line = <<>> THEN [did |-> "blank", subgroup |-> current_subgroup]
        ELSE IF match = None THEN [did |-> "no_match", subgroup |-> current_subgroup]
        ELSE LET descricao == Strip(match.descricao)
                 codigo == match.codigo
                 primeiro_digito == codigo[1]
                 debito_val == parse_value(match.debito)
                 credito_val == parse_value(match.credito)
                 info == group_info(primeiro_digito, descricao)
             IN  IF discarded(primeiro_digito)
                 THEN [did |-> "discarded", subgroup |-> current_subgroup]
                 ELSE IF debito_val = Raised \/ credito_val = Raised
                 THEN [did |-> "raised", subgroup |-> current_subgroup]
                 ELSE [did |-> "entry",
                       subgroup |-> IF is_subgroup(descricao, codigo)
                                    THEN Str(descricao) ELSE current_subgroup,
                       entry |->
                          [main_group |-> info.main_group,
                           subgroup_1 |-> IF is_subgroup(descricao, codigo)
                                          THEN None ELSE current_subgroup,
                           specific_account |-> Str(descricao),
                           movement_type |-> info.movement_type,
                           period_value |-> period_value(primeiro_digito,
                                                         debito_val, credito_val),
                           original_data |->
                              [codigo |-> Str(codigo),
                               saldo_anterior |-> Str(match.saldo_anterior),
                               debito |-> Str(match.debito),
                               credito |-> Str(match.credito),
                               saldo_atual |-> Str(match.saldo_atual)]]]

\* "ALUGUEL - [5.1.01] 0,00 6.235,12 0,00 6.235,12"
L_ALUGUEL ==
    <<"A", "L", "U", "G", "U", "E", "L", " ", "-", " ", "[", "5", ".", "1",
      ".", "0", "1", "]", " ", "0", ",", "0", "0", " ", "6", ".", "2", "3",
      "5", ",", "1", "2", " ", "0", ",", "0", "0", " ", "6", ".", "2", "3",
      "5", ",", "1", "2">>

\* "VENDAS - [41] 0,00 0,00 9,50 9,50C"
L_VENDAS ==
    <<"V", "E", "N", "D", "A", "S", " ", "-", " ", "[", "4", "1", "]", " ",
      "0", ",", "0", "0", " ", "0", ",", "0", "0", " ", "9", ",", "5", "0",
      " ", "9", ",", "5", "0", "C">>

\* "CMV   GERAL - [5] 0,00 2,00 2,00 0,00"
L_CMV ==
    <<"C", "M", "V", " ", " ", " ", "G", "E", "R", "A", "L", " ", "-", " ",
      "[", "5", "]", " ", "0", ",", "0", "0", " ", "2", ",", "0", "0", " ",
      "2", ",", "0", "0", " ", "0", ",", "0", "0">>

\* "Aluguel - [5101] 0,00 6.235,12 0,00 6.235,12"
L_Aluguel ==
    <<"A", "l", "u", "g", "u", "e", "l", " ", "-", " ", "[", "5", "1", "0",
      "1", "]", " ", "0", ",", "0", "0", " ", "6", ".", "2", "3", "5", ",",
      "1", "2", " ", "0", ",", "0", "0", " ", "6", ".", "2", "3", "5", ",",
      "1", "2">>

\* "ALUGUEL - [510101] 0,00 3,00 4,00 1,00C"
L_ALUGUEL_long ==
    <<"A", "L", "U", "G", "U", "E", "L", " ", "-", " ", "[", "5", "1", "0",
      "1", "0", "1", "]", " ", "0", ",", "0", "0", " ", "3", ",", "0", "0",
      " ", "4", ",", "0", "0", " ", "1", ",", "0", "0", "C">>

\* "ATIVO - [1] 0,00 5,00 0,00 5,00D"
L_ATIVO ==
    <<"A", "T", "I", "V", "O", " ", "-", " ", "[", "1", "]", " ", "0", ",",
      "0", "0", " ", "5", ",", "0", "0", " ", "0", ",", "0", "0", " ", "5",
      ",", "0", "0", "D">>

\* "Juros - [52] 0,00 , 0,00 0,00"
L_Juros ==
    <<"J", "u", "r", "o", "s", " ", "-", " ", "[", "5", "2", "]", " ", "0",
      ",", "0", "0", " ", ",", " ", "0", ",", "0", "0", " ", "0", ",", "0",
      "0">>

\* a line of blanks
L_blank == <<" ", " ">>

SampleLines ==
    {L_ALUGUEL, L_VENDAS, L_CMV, L_Aluguel, L_ALUGUEL_long, L_ATIVO, L_Juros,
     L_blank}

LineSeqs == UNION {[1..n -> SampleLines] : n \in 0..MaxLines}

\* the text of a two-page statement: the lines of each page (a page without
\* lines has no text and is skipped); no sample line holds the company or
\* the period header, so data["empresa"] and data["periodo"] stay None
Documents ==
    UNION {{<<SubSeq(ls, 1, k), SubSeq(ls, k + 1, Len(ls))>> : k \in 0..Len(ls)} :
           ls \in LineSeqs}

InitParse ==
    /\ l_pc = [at |-> "run", page |-> 1, line |-> 1]
    /\ l_lines \in Documents
    /\ l_subgroup = None
    /\ l_entries = <<>>
    /\ l_ev = <<>>

\* one iteration of the line loop; a ValueError of parse_value ends the run
ParseLine ==
    /\ l_pc.at = "run"
    /\ l_pc.line <= Len(l_lines[l_pc.page])
    /\ LET r == read_line(l_lines[l_pc.page][l_pc.line], l_subgroup)
       IN  /\ l_subgroup' = r.subgroup
           /\ l_entries' = IF r.did = "entry" THEN Append(l_entries, r.entry)
                           ELSE l_entries
           /\ l_ev' = Append(l_ev, [page |-> l_pc.page, line |-> l_pc.line,
                                    did |-> r.did, entries |-> Len(l_entries'),
                                    subgroup |-> l_subgroup'])
           /\ l_pc' = IF r.did = "raised" THEN [l_pc EXCEPT !.at = "raised"]
                      ELSE [l_pc EXCEPT !.line = @ + 1]
    /\ UNCHANGED l_lines

\* the page loop moves to the next page
NextPage ==
    /\ l_pc.at = "run"
    /\ l_pc.line > Len(l_lines[l_pc.page])
    /\ l_pc.page < Len(l_lines)
    /\ l_pc' = [l_pc EXCEPT !.page = @ + 1, !.line = 1]
    /\ UNCHANGED <<l_lines, l_subgroup, l_entries, l_ev>>

\* return data
ParseReturn ==
    /\ l_pc.at = "run"
    /\ l_pc.line > Len(l_lines[l_pc.page])
    /\ l_pc.page = Len(l_lines)
    /\ l_pc' = [l_pc EXCEPT !.at = "done"]
    /\ UNCHANGED <<l_lines, l_subgroup, l_entries, l_ev>>

\* ------------------------------------------------------------------------
\* python_parser.py: parse_balancete_from_text, the loop over the lines
\* ------------------------------------------------------------------------

MaxTextLines == 4

\* "Saldo Anterior"
T_Saldo_Anterior ==
    <<"S", "a", "l", "d", "o", " ", "A", "n", "t", "e", "r", "i", "o", "r">>

\* "RECEITAS - ["
T_RECEITAS_heading ==
    <<"R", "E", "C", "E", "I", "T", "A", "S", " ", "-", " ", "[">>

\* "CUSTOS E DESPESAS - ["
T_CUSTOS_heading ==
    <<"C", "U", "S", "T", "O", "S", " ", "E", " ", "D", "E", "S", "P", "E",
      "S", "A", "S", " ", "-", " ", "[">>

\* "- ["
T_dash_bracket ==
    <<"-", " ", "[">>

\* str.startswith(prefix)
StartsWith(s, prefix) == Len(s) >= Len(prefix) /\ SubSeq(s, 1, Len(prefix)) = prefix

\* linha_limpa.split('-')[0].strip()
BeforeDash(s) ==
    LET k == Find(s, "-")
    IN  Strip(IF k = 0 THEN s ELSE SubSeq(s, 1, k - 1))

\* the length of the longest run of [\d.,] that ends the word w
RECURSIVE AmountSuffix(_)
AmountSuffix(w) ==
    IF w # <<>> /\ (IsDigit(w[Len(w)]) \/ w[Len(w)] \in {".", ","})
    THEN 1 + AmountSuffix(SubSeq(w, 1, Len(w) - 1))
    ELSE 0

\* padrao_lancamento.search(linha_limpa): the pattern ends at the end of the
\* line and its three groups are separated by blanks, so a match is made of
\* the last three words: the run of [\d.,] that ends the third word from the
\* end, an amount, and an amount with an optional D or C; None otherwise
padrao_lancamento(linha) ==
    LET ws == WordsFrom(linha, 1)
        n  == Len(ws)
    IN  IF n < 3 THEN None
        ELSE LET w1 == SubSeq(linha, ws[n - 2].from, ws[n - 2].to)
                 w2 == SubSeq(linha, ws[n - 1].from, ws[n - 1].to)
                 w3 == SubSeq(linha, ws[n].from, ws[n].to)
                 k  == AmountSuffix(w1)
             IN  IF k > 0 /\ IsAmount(w2) /\ IsBalance(w3)
                 THEN [start |-> ws[n - 2].to - k + 1,
                       debito |-> SubSeq(w1, Len(w1) - k + 1, Len(w1)),
                       credito |-> w2]
                 ELSE None

\* re.sub(r'-\s*\[\d+\]\s*$', '', descricao).strip()
strip_code(descricao) ==
    LET ks == {k \in 1..Len(descricao) :
                 /\ descricao[k] = "-"
                 /\ IsCode(Strip(SubSeq(descricao, k + 1, Len(descricao))))}
    IN  Strip(IF ks = {} THEN descricao
              ELSE SubSeq(descricao, 1, (CHOOSE k \in ks : TRUE) - 1))

\* the subgroup is taken for the entry whether or not there is one
subgrupo_unconditional(subgrupo, grupo) == subgrupo

\* line 76: subgrupo_1_atual or grupo_principal_atual; None and the empty
\* string are both false
subgrupo_or_grupo(subgrupo, grupo) ==
    IF subgrupo = None \/ subgrupo = Str(<<>>) THEN grupo ELSE subgrupo

\* lines 56-79: one iteration of the loop over the lines, from the current
\* main group and subgroup
read_text_line(linha, grupo, subgrupo) ==
    LET linha_limpa == Strip(linha)
        match       == padrao_lancamento(linha_limpa)
    IN  IF linha_limpa = <<>> \/ Contains(linha_limpa, T_Saldo_Anterior)
        THEN [did |-> "skipped", grupo |-> grupo, subgrupo |-> subgrupo,
              entry |-> None]
        ELSE IF \/ StartsWith(linha_limpa, T_RECEITAS_heading)
                \/ StartsWith(linha_limpa, T_CUSTOS_heading)
        THEN [did |-> "main_group", grupo |-> Str(BeforeDash(linha_limpa)),
              subgrupo |-> None, entry |-> None]
        ELSE IF grupo # None /\ Contains(linha_limpa, T_dash_bracket) /\ match = None
        THEN [did |-> "subgroup", grupo |-> grupo,
              subgrupo |-> Str(BeforeDash(linha_limpa)), entry |-> None]
        ELSE IF match # None /\ grupo # None
        THEN LET descricao == Strip(SubSeq(linha_limpa, 1, match.start - 1))
                 debito    == limpar_valor(match.debito)
                 credito   == limpar_valor(match.credito)
             IN  IF debito > 0 \/ credito > 0
                 THEN [did |-> "entry", grupo |-> grupo, subgrupo |-> subgrupo,
                       entry |-> [grupo_principal |-> grupo,
                                  subgrupo_1 |-> subgrupo_or_grupo(subgrupo, grupo),
                                  conta_especifica |-> Str(strip_code(descricao)),
                                  valor_debito |-> debito,
                                  valor_credito |-> credito]]
                 ELSE [did |-> "zero", grupo |-> grupo, subgrupo |-> subgrupo,
                       entry |-> None]
        ELSE [did |-> "no_match", grupo |-> grupo, subgrupo |-> subgrupo,
              entry |-> None]

\* "RECEITAS - [4] 0,00 1,00 1,00C"
X_RECEITAS ==
    <<"R", "E", "C", "E", "I", "T", "A", "S", " ", "-", " ", "[", "4", "]",
      " ", "0", ",", "0", "0", " ", "1", ",", "0", "0", " ", "1", ",", "0",
      "0", "C">>

\* "  CUSTOS E DESPESAS - [5]"
X_CUSTOS ==
    <<" ", " ", "C", "U", "S", "T", "O", "S", " ", "E", " ", "D", "E", "S",
      "P", "E", "S", "A", "S", " ", "-", " ", "[", "5", "]">>

\* "VENDAS - [41]"
X_VENDAS ==
    <<"V", "E", "N", "D", "A", "S", " ", "-", " ", "[", "4", "1", "]">>

\* "- [42]"
X_unnamed ==
    <<"-", " ", "[", "4", "2", "]">>

\* "AB - [411] 0,00 9,50 9,50C"
X_AB ==
    <<"A", "B", " ", "-", " ", "[", "4", "1", "1", "]", " ", "0", ",", "0",
      "0", " ", "9", ",", "5", "0", " ", "9", ",", "5", "0", "C">>

\* "ALUGUEL - [511] 2,00 0,00 2,00D"
X_ALUGUEL ==
    <<"A", "L", "U", "G", "U", "E", "L", " ", "-", " ", "[", "5", "1", "1",
      "]", " ", "2", ",", "0", "0", " ", "0", ",", "0", "0", " ", "2", ",",
      "0", "0", "D">>

\* "Juros - [52] 0,00 0,00 0,00"
X_Juros ==
    <<"J", "u", "r", "o", "s", " ", "-", " ", "[", "5", "2", "]", " ", "0",
      ",", "0", "0", " ", "0", ",", "0", "0", " ", "0", ",", "0", "0">>

\* "Saldo Anterior 1,00 0,00 1,00D"
X_Saldo ==
    <<"S", "a", "l", "d", "o", " ", "A", "n", "t", "e", "r", "i", "o", "r",
      " ", "1", ",", "0", "0", " ", "0", ",", "0", "0", " ", "1", ",", "0",
      "0", "D">>

\* "  "
X_blank ==
    <<" ", " ">>

TextSampleLines ==
    {X_RECEITAS, X_CUSTOS, X_VENDAS, X_unnamed, X_AB, X_ALUGUEL, X_Juros,
     X_Saldo, X_blank}

\* text_content.split('\n') of the texts whose lines are sample lines
TextLineSeqs == UNION {[1..n -> TextSampleLines] : n \in 0..MaxTextLines}

InitText ==
    /\ t_pc = [at |-> "run", line |-> 1]
    /\ t_lines \in TextLineSeqs
    /\ t_grupo = None
    /\ t_subgrupo = None
    /\ t_entries = <<>>
    /\ t_ev = <<>>

\* one iteration of the loop over the lines
TextLine ==
    /\ t_pc.at = "run"
    /\ t_pc.line <= Len(t_lines)
    /\ LET r == read_text_line(t_lines[t_pc.line], t_grupo, t_subgrupo)
       IN  /\ t_grupo' = r.grupo
           /\ t_subgrupo' = r.subgrupo
           /\ t_entries' = IF r.did = "entry" THEN Append(t_entries, r.entry)
                           ELSE t_entries
           /\ t_ev' = Append(t_ev, [did |-> r.did, entries |-> Len(t_entries')])
    /\ t_pc' = [t_pc EXCEPT !.line = @ + 1]
    /\ UNCHANGED t_lines

\* return dados
TextReturn ==
    /\ t_pc.at = "run"
    /\ t_pc.line > Len(t_lines)
    /\ t_pc' = [t_pc EXCEPT !.at = "done"]
    /\ UNCHANGED <<t_lines, t_grupo, t_subgrupo, t_entries, t_ev>>

\* ------------------------------------------------------------------------
\* core_processor.py: BalanceteProcessor.process_balancete
\* ------------------------------------------------------------------------

\* "2025-05-31"
T_date == <<"2", "0", "2", "5", "-", "0", "5", "-", "3", "1">>

\* "abc"
Tok_abc == <<"a", "b", "c">>

\* "500,00"
Tok_500 == <<"5", "0", "0", ",", "0", "0">>

\* account records the language model may return
PipeContas ==
    { [grupo_principal |-> Str(T_RECEITAS), conta_especifica |-> Str(T_VENDAS),
       valor_debito |-> Num(0), valor_credito |-> Num(1000 * Scale)],
      [grupo_principal |-> Str(T_CUSTOS_E_DESPESAS), conta_especifica |-> Str(T_ALUGUEL),
       valor_debito |-> Str(Tok_500), valor_credito |-> Num(0)],
      [grupo_principal |-> Str(T_RECEITAS), conta_especifica |-> Str(T_VENDAS),
       valor_debito |-> Str(Tok_abc), valor_credito |-> Num(1000 * Scale)],
      [grupo_principal |-> Str(T_RECEITAS),
       valor_debito |-> Num(0), valor_credito |-> Num(1000 * Scale)],
      [grupo_principal |-> Str(T_receitas_padded), conta_especifica |-> Str(T_VENDAS),
       valor_debito |-> Num(0), valor_credito |-> Num(-(5 * Scale))],
      [grupo_principal |-> Str(T_CUSTOS_E_DESPESAS), conta_especifica |-> Str(T_ALUGUEL),
       valor_debito |-> Num(0), valor_credito |-> Num(0)] }

ContaLists == UNION {[1..n -> PipeContas] : n \in 0..MaxContas}

\* the structured data the language model may return: any of the three
\* top-level fields may be missing
PipeInputs ==
    {[f \in fs |-> IF f = "cliente" THEN Str(T_ALUGUEL)
                   ELSE IF f = "data_final" THEN Str(T_date) ELSE <<>>] :
        fs \in {{"cliente", "data_final"}, {"cliente"}, {"data_final"}}}
    \cup {[cliente |-> Str(T_ALUGUEL), data_final |-> Str(T_date), contas |-> cs] :
            cs \in ContaLists}
    \cup {[cliente |-> Str(T_ALUGUEL), contas |-> cs] : cs \in ContaLists}

InitPipe ==
    /\ p_pc = "extract"
    /\ p_data \in PipeInputs
    /\ p_entries = <<>>
    /\ p_stored = <<>>
    /\ p_quarantine = "none"
    /\ p_result = IdleLocal

\* the except block without the call of _move_to_quarantine
PipeFail_without_quarantine(stage) ==
    /\ p_pc' = "done"
    /\ p_quarantine' = "none"
    /\ p_result' = [success |-> FALSE, error |-> stage]

\* lines 96-108: the except block. _move_to_quarantine (lines 110-126) asks
\* the storage client to move the file; when that call raises, the failure
\* is logged and swallowed and the file stays where it was
PipeFail(stage) ==
    /\ p_pc' = "done"
    /\ p_quarantine' \in {"moved", "move_failed"}
    /\ p_result' = [success |-> FALSE, error |-> stage]

\* lines 50-55: text extraction
PipeExtract ==
    /\ p_pc = "extract"
    /\ \/ p_pc' = "analyze" /\ UNCHANGED <<p_quarantine, p_result>>
       \/ PipeFail("extract")
    /\ UNCHANGED <<p_data, p_entries, p_stored>>

\* lines 57-62: structuring by the language model
PipeAnalyze ==
    /\ p_pc = "analyze"
    /\ \/ p_pc' = "validate" /\ UNCHANGED <<p_quarantine, p_result>>
       \/ PipeFail("analyze")
    /\ UNCHANGED <<p_data, p_entries, p_stored>>

\* lines 64-69: validation
PipeValidate ==
    /\ p_pc = "validate"
    /\ IF validate_structure(p_data) = {}
       THEN p_pc' = "rules" /\ UNCHANGED <<p_quarantine, p_result>>
       ELSE PipeFail("validate")
    /\ UNCHANGED <<p_data, p_entries, p_stored>>

\* lines 71-78: business rules
PipeRules ==
    /\ p_pc = "rules"
    /\ p_entries' = process_accounts(p_data["contas"])
    /\ p_pc' = "store"
    /\ UNCHANGED <<p_data, p_stored, p_quarantine, p_result>>

\* SupabaseClient.store_financial_entries: inserts the entries or raises
store_financial_entries(entries) == entries

\* lines 80-94: storage and the returned result
PipeStore ==
    /\ p_pc = "store"
    /\ \/ /\ p_stored' = store_financial_entries(p_entries)
          /\ p_pc' = "done"
          /\ p_result' = [success |-> TRUE, total_entries |-> Len(p_entries)]
          /\ UNCHANGED p_quarantine
       \/ PipeFail("store") /\ UNCHANGED p_stored
    /\ UNCHANGED <<p_data, p_entries>>

DbIdle ==
    /\ schema = [totals_trigger |-> FALSE]
    /\ monthly_analyses = {}
    /\ financial_entries = EmptyBag
    /\ file_uploads = {}
    /\ pc = [c \in Calls |-> "idle"]
    /\ local = [c \in Calls |-> IdleLocal]
    /\ nsub = 0
    /\ ev = [op |-> "init", call |-> 0, outcome |-> "ok"]
    /\ content = <<>>

Init == InitDb /\ RulesIdle /\ PipeIdle /\ NormIdle /\ ParseIdle /\ ReconIdle /\ TextIdle

OthersIdle ==
    UNCHANGED <<ruleVars, pipeVars, normVars, parseVars, reconVars, textVars>>

Next ==
    \/ \E c \in Calls, key \in Keys, stmt \in Statements : CaeUpsert(c, key, stmt) /\ OthersIdle
    \/ \E c \in Calls : CaeDelete(c) /\ OthersIdle
    \/ \E c \in Calls : CaeInsert(c) /\ OthersIdle
    \/ \E c \in Calls : CaeTotals(c) /\ OthersIdle
    \/ \E c \in Calls : CaeUpload(c) /\ OthersIdle
    \/ \E key \in Keys, hash \in Hashes, dup \in BOOLEAN : PreCheck(key, hash, dup) /\ OthersIdle
    \/ \E id \in {r.id : r \in monthly_analyses} \cup {NoId}, batch \in Batches,
          force \in BOOLEAN,
          failing \in SUBSET (1..2), aborted \in BOOLEAN, marked \in BOOLEAN :
            ProcessFile(id, batch, force, failing, aborted, marked) /\ OthersIdle
    \/ \E key \in Keys, contas \in LlmContas, created \in BOOLEAN, stored \in BOOLEAN :
            Handler(key, contas, created, stored) /\ OthersIdle

Spec == Init /\ [][Next]_vars

\* the calls of create_analysis_and_entries alone, interleaved step by step
CaeNext ==
    \/ \E c \in Calls, key \in Keys, stmt \in Statements : CaeUpsert(c, key, stmt) /\ OthersIdle
    \/ \E c \in Calls : CaeDelete(c) /\ OthersIdle
    \/ \E c \in Calls : CaeInsert(c) /\ OthersIdle
    \/ \E c \in Calls : CaeTotals(c) /\ OthersIdle
    \/ \E c \in Calls : CaeUpload(c) /\ OthersIdle

SpecCae == Init /\ [][CaeNext]_vars

RulesInit ==
    InitRules /\ DbIdle /\ PipeIdle /\ NormIdle /\ ParseIdle /\ ReconIdle /\ TextIdle

RulesNext ==
    Classify /\ UNCHANGED <<dbVars, pipeVars, normVars, parseVars, reconVars, textVars>>

SpecRules == RulesInit /\ [][RulesNext]_vars

NormInit ==
    InitNorm /\ DbIdle /\ RulesIdle /\ PipeIdle /\ ParseIdle /\ ReconIdle /\ TextIdle

NormNext ==
    Normalize /\ UNCHANGED <<dbVars, ruleVars, pipeVars, parseVars, reconVars, textVars>>

SpecNorm == NormInit /\ [][NormNext]_vars

PipeInit ==
    InitPipe /\ DbIdle /\ RulesIdle /\ NormIdle /\ ParseIdle /\ ReconIdle /\ TextIdle

DbRulesIdle ==
    UNCHANGED <<dbVars, ruleVars, normVars, parseVars, reconVars, textVars>>

PipeNext ==
    \/ PipeExtract /\ DbRulesIdle
    \/ PipeAnalyze /\ DbRulesIdle
    \/ PipeValidate /\ DbRulesIdle
    \/ PipeRules /\ DbRulesIdle
    \/ PipeStore /\ DbRulesIdle

SpecPipe == PipeInit /\ [][PipeNext]_vars

ParseInit ==
    InitParse /\ DbIdle /\ RulesIdle /\ PipeIdle /\ NormIdle /\ ReconIdle /\ TextIdle

ParseOthersIdle ==
    UNCHANGED <<dbVars, ruleVars, pipeVars, normVars, reconVars, textVars>>

ParseNext ==
    \/ ParseLine /\ ParseOthersIdle
    \/ NextPage /\ ParseOthersIdle
    \/ ParseReturn /\ ParseOthersIdle

SpecParse == ParseInit /\ [][ParseNext]_vars

ReconInit ==
    InitRecon /\ DbIdle /\ RulesIdle /\ PipeIdle /\ NormIdle /\ ParseIdle /\ TextIdle

ReconOthersIdle ==
    UNCHANGED <<dbVars, ruleVars, pipeVars, normVars, parseVars, textVars>>

ReconNext ==
    \/ ReconRecord /\ ReconOthersIdle
    \/ ReconDone /\ ReconOthersIdle

SpecRecon == ReconInit /\ [][ReconNext]_vars

TextInit ==
    InitText /\ DbIdle /\ RulesIdle /\ PipeIdle /\ NormIdle /\ ParseIdle /\ ReconIdle

TextOthersIdle ==
    UNCHANGED <<dbVars, ruleVars, pipeVars, normVars, parseVars, reconVars>>

TextNext ==
    \/ TextLine /\ TextOthersIdle
    \/ TextReturn /\ TextOthersIdle

SpecText == TextInit /\ [][TextNext]_vars


\* ------------------------------------------------------------------------
\* Properties
\* ------------------------------------------------------------------------

NoCallInFlight == \A c \in Calls : pc[c] = "idle"

CompletedRow(key) == \E r \in monthly_analyses : r.key = key /\ r.status = "completed"

TablesUnchanged ==
    /\ monthly_analyses' = monthly_analyses
    /\ financial_entries' = financial_entries

\* C1: a submission that arrives without the overwrite flag for a key whose
\* analysis is completed fails, and leaves the analysis row and the entries
\* as they were.  create_analysis_and_entries takes no overwrite flag;
\* process_file takes force_process.
C1_DuplicateRejected ==
    [][/\ (/\ ev'.op = "cae_upsert"
           /\ NoCallInFlight
           /\ CompletedRow(ev'.key))
          => (ev'.outcome # "ok" /\ TablesUnchanged)
       /\ (/\ ev'.op = "process_file"
           /\ ~ev'.force
           /\ \E r \in monthly_analyses : r.id = ev'.id /\ r.status = "completed")
          => (ev'.outcome # "ok" /\ TablesUnchanged)]_vars

\* the entries one run of a statement stores for analysis id
CanonicalEntries(name, id) ==
    IF name \in Statements
    THEN BagOfSeq(entries_to_insert(StatementOf(name).financial_entries, id))
    ELSE BagOfSeq(BatchRows(BatchOf(name), 1, {}, id))

Resubmitted(id, name) == id \in DOMAIN content /\ content[id] = name

\* C2: when the statement already stored for an analysis is submitted again
\* with overwrite enabled, the analysis afterwards holds exactly the entries
\* of one run of that statement.
C2_IdempotentReprocessing ==
    [][/\ (/\ ev'.op = "process_file" /\ ev'.outcome = "ok"
           /\ ev'.force /\ ev'.failed = 0
           /\ Resubmitted(ev'.id, ev'.batch))
          => EntriesOf(financial_entries', ev'.id) = CanonicalEntries(ev'.batch, ev'.id)
       /\ (/\ ev'.op = "cae_return"
           /\ Resubmitted(ev'.analysis_id, ev'.stmt))
          => EntriesOf(financial_entries', ev'.analysis_id)
                = CanonicalEntries(ev'.stmt, ev'.analysis_id)]_vars

\* a total column read as a number (an unset column reads as 0)
TotalValue(t) == IF t.t = "num" THEN t.v ELSE 0

TotalsMatch(id) ==
    LET r == RowOfId(monthly_analyses, id)
    IN  /\ TotalValue(r.total_receitas) = SumBy(financial_entries, id, "Receita")
        /\ TotalValue(r.total_despesas) = SumBy(financial_entries, id, "Despesa")

\* C3: when a run has just completed an analysis, its total_receitas and
\* total_despesas equal the sums of period_value over its persisted Receita
\* and Despesa entries.
C3_TotalsMatchEntries ==
    /\ (ev.op = "cae_return" /\ ev.outcome = "ok") => TotalsMatch(ev.analysis_id)
    /\ (ev.op = "process_file" /\ ev.outcome = "ok") => TotalsMatch(ev.id)

\* C4: every entry create_analysis_and_entries hands to the bulk insert has
\* period_value > 0.
C4_PositiveValues ==
    \A c \in Calls :
        pc[c] = "cae_insert" =>
            LET es == entries_to_insert(StatementOf(local[c].stmt).financial_entries,
                                        local[c].analysis_id)
            IN  \A i \in 1..Len(es) : es[i].period_value > 0

\* C5: an analysis row is first written as 'processing'; afterwards its
\* status changes only from processing to completed or failed, or from
\* completed back to processing by a submission that passes the overwrite
\* flag.
C5_StatusMachine ==
    [][\A n \in monthly_analyses' :
          IF \A r \in monthly_analyses : r.id # n.id
          THEN n.status = "processing"
          ELSE LET r == RowOfId(monthly_analyses, n.id)
               IN  \/ n.status = r.status
                   \/ r.status = "processing" /\ n.status \in {"completed", "failed", "error"}
                   \/ /\ r.status = "completed" /\ n.status = "processing"
                      /\ ev'.op = "process_file" /\ ev'.force]_vars

\* C6: when the bulk insert of create_analysis_and_entries fails, the
\* analysis is left in status failed.
C6_InsertFailureMarksFailed ==
    (ev.op = "cae_insert" /\ ev.outcome = "raised")
        => RowOfId(monthly_analyses, ev.analysis_id).status \in {"failed", "error"}

C8_RuleTable ==
    r_pc = "done" =>
        /\ r_in.grupo_principal = T_RECEITAS =>
              r_out = [movement_type |-> "Receita", period_value |-> Abs(r_in.valor_credito)]
        /\ r_in.grupo_principal = T_CUSTOS_E_DESPESAS =>
              r_out = [movement_type |-> "Despesa", period_value |-> Abs(r_in.valor_debito)]
        /\ r_out.period_value >= 0

\* a negative credit under RECEITAS has been classified
C8_Witness ==
    /\ r_pc = "done"
    /\ r_in.grupo_principal = T_RECEITAS
    /\ r_in.valor_credito < 0
    /\ r_out.period_value = -r_in.valor_credito

PipeErrors == validate_structure(p_data)

AbortedAtValidation ==
    p_pc = "done" /\ ~p_result.success /\ p_result.error = "validate"

\* C9: a run of process_balancete is never aborted because a valor_debito or
\* valor_credito is an unparseable string.
C9_FormatErrorRecovered ==
    AbortedAtValidation =>
        \E e \in PipeErrors : ~(e.field \in {"valor_debito", "valor_credito"}
                                /\ e.kind = "invalid")

OnlyMissingAccountFields ==
    /\ PipeErrors # {}
    /\ \A e \in PipeErrors : e.index > 0 /\ e.kind = "missing"

ValidContas == SelectSeq(p_data["contas"], LAMBDA conta : validate_conta(conta) = {})

\* C10: when account records of the input lack a required field, only those
\* records are dropped: the run goes on and stores every valid account.
C10_MissingFieldDropsOneEntry ==
    (p_pc = "done" /\ OnlyMissingAccountFields)
        => \/ p_result.success /\ p_stored = process_accounts(ValidContas)
           \/ ~p_result.success /\ p_result.error \in {"extract", "analyze", "store"}

TopLevelMissing == {"cliente", "data_final", "contas"} \ DOMAIN p_data # {}

\* C11: when the structured input lacks cliente, data_final or the account
\* list, the run never reaches the business rules or the store step, nothing
\* is persisted, and the run ends with an error result.
C11_TopLevelValidationAborts ==
    (p_pc # "off" /\ TopLevelMissing) =>
        /\ p_pc \notin {"rules", "store"}
        /\ p_entries = <<>>
        /\ p_stored = <<>>
        /\ monthly_analyses = {} /\ financial_entries = EmptyBag
        /\ p_pc = "done" =>
              ~p_result.success /\ p_result.error \in {"extract", "analyze", "validate"}

\* an input without its account list was rejected by the validation
C11_Witness ==
    /\ p_pc = "done"
    /\ "contas" \notin DOMAIN p_data
    /\ ~p_result.success /\ p_result.error = "validate"

\* C12: no persisted entry has an empty specific_account.
C12_NoEmptyAccountPersisted ==
    \A e \in DOMAIN financial_entries : e.specific_account # <<>>

\* C13: every persisted entry carries the id of an existing analysis, never
\* a null analysis_id.
C13_EntriesCarryAnalysisId ==
    \A e \in DOMAIN financial_entries :
        e.analysis_id # NoId /\ \E r \in monthly_analyses : r.id = e.analysis_id

\* the file upload record a call of create_analysis_and_entries was given
UploadOf(c) == CHOOSE u \in file_uploads : u.id = c

\* C14: when a run of create_analysis_and_entries has ended, its file upload
\* record is completed with entries_created equal to the number of entries
\* of the analysis if the run completed, and failed if the run raised.
C14_UploadMirrorsOutcome ==
    /\ (ev.op = "cae_return" /\ NoCallInFlight) =>
            /\ UploadOf(ev.call).status = "completed"
            /\ UploadOf(ev.call).entries_created =
                    BagCardinality(EntriesOf(financial_entries, ev.analysis_id))
    /\ (ev.call \in Calls /\ ev.outcome = "raised") =>
            UploadOf(ev.call).status = "failed"

\* the token without its movement suffix
Body(s) == IF s # <<>> /\ s[Len(s)] \in {"D", "C"} THEN SubSeq(s, 1, Len(s) - 1) ELSE s

\* the token as the locale rule reads it: suffix, blanks and parentheses
\* dropped; with both separators the last one is the decimal point and the
\* other is removed; a lone comma is the decimal point when exactly two
\* digits follow it and is removed otherwise
RuleClean(s) ==
    LET b == RemoveChars(s, {"D", "C", "(", ")"} \cup Whitespace)
        twoDigitsFollow == /\ Len(b) - RFind(b, ",") = 2
                           /\ IsDigit(b[Len(b) - 1]) /\ IsDigit(b[Len(b)])
    IN  IF CountChar(b, ",") > 0 /\ CountChar(b, ".") > 0
        THEN (IF RFind(b, ",") > RFind(b, ".")
              THEN ReplaceChar(RemoveChars(b, {"."}), ",", ".")
              ELSE RemoveChars(b, {","}))
        ELSE IF CountChar(b, ",") > 0
        THEN (IF twoDigitsFollow THEN ReplaceChar(b, ",", ".") ELSE RemoveChars(b, {","}))
        ELSE b

RuleValue(s) == DecimalVal(RuleClean(s))

\* C15: for a token with one comma (with or without a point), each
\* normalizer returns the value the locale rule gives: the separator that
\* occurs last is the decimal separator, a lone comma only when exactly two
\* digits follow it.
C15_LastSeparatorIsDecimal ==
    (n_pc = "done" /\ CountChar(n_in, ",") = 1) =>
        /\ DecimalOk(n_out.cleaned) /\ DecimalVal(n_out.cleaned) = RuleValue(n_in)
        /\ n_out.to_float_safe = RuleValue(n_in)
        /\ n_out.convert_to_decimal = RuleValue(n_in)

\* decimal digits of a natural number
RECURSIVE NatToDigits(_)
NatToDigits(n) ==
    IF n < 10 THEN <<Digits[n + 1]>>
    ELSE NatToDigits(n \div 10) \o <<Digits[(n % 10) + 1]>>

\* digits with a point before every group of three
RECURSIVE Grouped(_)
Grouped(ds) ==
    IF Len(ds) <= 3 THEN ds
    ELSE Grouped(SubSeq(ds, 1, Len(ds) - 3)) \o <<".">> \o SubSeq(ds, Len(ds) - 2, Len(ds))

\* a non-negative value written with two decimals, '.' between thousands
\* groups and ',' before the decimals
BRFormat(v) ==
    LET cents == v \div Pow10(FracDigits - 2)
        dec   == NatToDigits(cents % 100)
    IN  Grouped(NatToDigits(cents \div 100)) \o <<",">>
            \o (IF Len(dec) = 1 THEN <<"0">> ELSE <<>>) \o dec

\* a valid Brazilian-formatted token: thousands groups separated by points
\* (no leading zero), a comma, two decimals, an optional D or C
IsBRToken(s) ==
    LET b  == Body(s)
        ip == SubSeq(b, 1, Len(b) - 3)
        ds == RemoveChars(ip, {"."})
    IN  /\ Len(b) >= 4
        /\ b[Len(b) - 2] = ","
        /\ IsDigit(b[Len(b) - 1]) /\ IsDigit(b[Len(b)])
        /\ \A i \in 1..Len(ip) : IsDigit(ip[i]) \/ ip[i] = "."
        /\ ds # <<>>
        /\ Grouped(ds) = ip
        /\ (Len(ds) > 1 => ds[1] # "0")

\* C16: for a valid Brazilian-formatted token, the value each normalizer
\* returns, written again with '.' between thousands and ',' before two
\* decimals, is the token without its suffix.
C16_CurrencyRoundTrip ==
    (n_pc = "done" /\ IsBRToken(n_in)) =>
        /\ BRFormat(Abs(n_out.to_float_safe)) = Body(n_in)
        /\ BRFormat(Abs(n_out.limpar_valor)) = Body(n_in)
        /\ n_out.parse_value.t = "num"
        /\ BRFormat(Abs(n_out.parse_value.v)) = Body(n_in)

\* "1.234,56C" has been normalized
C16_Witness ==
    /\ n_pc = "done"
    /\ n_in = <<"1", ".", "2", "3", "4", ",", "5", "6", "C">>
    /\ n_out.to_float_safe = 1234 * Scale + 56 * (Scale \div 100)

\* the raw line read by the k-th iteration of the line loop, and the number
\* of entries before it
LineRead(k) == l_lines[l_ev[k].page][l_ev[k].line]

EntriesBefore(k) == IF k = 1 THEN 0 ELSE l_ev[k - 1].entries

\* current_subgroup before the k-th iteration
SubgroupBefore(k) == IF k = 1 THEN None ELSE l_ev[k - 1].subgroup

\* C17: reading the line "ALUGUEL - [5.1.01] 0,00 6.235,12 0,00 6.235,12"
\* appends exactly one entry, with specific_account ALUGUEL, movement_type
\* Despesa and period_value 6235.12.
C17_DottedCodeLineYieldsEntry ==
    \A k \in 1..Len(l_ev) :
        LineRead(k) = L_ALUGUEL =>
            /\ l_ev[k].entries = EntriesBefore(k) + 1
            /\ l_entries[l_ev[k].entries].specific_account = Str(T_ALUGUEL)
            /\ l_entries[l_ev[k].entries].movement_type = Str(T_Despesa)
            /\ l_entries[l_ev[k].entries].period_value
                   = Num(6235 * Scale + 12 * (Scale \div 100))

\* the first character of the bracketed account code of a raw line, "" when
\* the line has no bracket
CodeDigit(raw) ==
    LET k == Find(raw, "[")
    IN  IF k = 0 \/ k = Len(raw) THEN "" ELSE raw[k + 1]

\* C18: a line appends an entry only if its account code begins with 4 or
\* 5; a line with any other leading code digit appends no entry and
\* leaves current_subgroup as it was.
C18_OnlyCodes4And5 ==
    \A k \in 1..Len(l_ev) :
        /\ l_ev[k].entries > EntriesBefore(k) => CodeDigit(LineRead(k)) \in {"4", "5"}
        /\ CodeDigit(LineRead(k)) \notin {"4", "5"} =>
               /\ l_ev[k].entries = EntriesBefore(k)
               /\ l_ev[k].subgroup = SubgroupBefore(k)

\* after the heading VENDAS the uppercase line "ATIVO - [1] ..." was read:
\* it matched the pattern and was left out, the context is still VENDAS
C18_Witness ==
    /\ Len(l_ev) = 2
    /\ LineRead(1) = L_VENDAS
    /\ LineRead(2) = L_ATIVO
    /\ l_ev[2].did = "discarded"
    /\ Len(l_entries) = 1
    /\ l_subgroup = Str(T_VENDAS)

\* a heading line: a ledger line of code 4 or 5 whose description is fully
\* uppercase and whose code has at most five digits
HeadingLine(raw) ==
    LET m == conta_pattern(clean_line(raw))
    IN  /\ m # None
        /\ m.codigo[1] \in {"4", "5"}
        /\ isupper(m.descricao)
        /\ Len(m.codigo) <= 5

HeadingOf(raw) == Str(Strip(conta_pattern(clean_line(raw)).descricao))

\* C19: a heading line sets current_subgroup to its description and appends
\* no entry.
C19_HeadingNotEmitted ==
    \A k \in 1..Len(l_ev) :
        (HeadingLine(LineRead(k)) /\ l_ev[k].did # "raised") =>
            /\ l_ev[k].subgroup = HeadingOf(LineRead(k))
            /\ l_ev[k].entries = EntriesBefore(k)

\* the description of the most recent heading line read before the k-th
\* iteration, None when there is none
LastHeading(k) ==
    LET hs == {j \in 1..(k - 1) : HeadingLine(LineRead(j))}
    IN  IF hs = {} THEN None
        ELSE HeadingOf(LineRead(CHOOSE j \in hs : \A i \in hs : i <= j))

\* C20: over the lines of all pages, the entry of a line that is not a
\* heading has as subgroup_1 the description of the most recent heading
\* read before it, None when there is none, and current_subgroup changes
\* only at a heading line.
C20_SubgroupIsLastHeading ==
    \A k \in 1..Len(l_ev) :
        /\ (l_ev[k].entries > EntriesBefore(k) /\ ~HeadingLine(LineRead(k))) =>
               l_entries[l_ev[k].entries].subgroup_1 = LastHeading(k)
        /\ l_ev[k].subgroup # SubgroupBefore(k) => HeadingLine(LineRead(k))

\* the heading VENDAS closes the first page and the account "Aluguel" opens
\* the second: its entry carries the subgroup VENDAS
C20_Witness ==
    /\ l_pc.at = "done"
    /\ l_lines = <<<<L_VENDAS>>, <<L_Aluguel>>>>
    /\ Len(l_entries) = 2
    /\ l_entries[2].subgroup_1 = Str(T_VENDAS)
    /\ l_entries[2].movement_type = Str(T_Despesa)

\* a raw line that matches the pattern with a code that begins with 4 or 5
ExtractedLine(raw) ==
    LET m == conta_pattern(clean_line(raw))
    IN  m # None /\ m.codigo[1] \in {"4", "5"}

\* the value of an amount the entry keeps in original_data
AmountOf(e, field) == parse_value(e.original_data[field].s).v

C22_FailedRunMarkedFailed ==
    (ev.op = "process_file" /\ ev.outcome \in {"no_data", "error"})
        => RowOfId(monthly_analyses, ev.id).status \in {"failed", "error"}

\* C23: when the INSERT of an entry fails in process_file, the failure is
\* raised and the analysis is not completed; the total_entries of a completed
\* analysis counts only the entries that were inserted.
C23_FailedInsertNotCompleted ==
    (ev.op = "process_file" /\ ev.outcome \in {"ok", "error"}) =>
        /\ ev.failed > 0 =>
               /\ ev.outcome = "error"
               /\ RowOfId(monthly_analyses, ev.id).status # "completed"
        /\ ev.outcome = "ok" =>
               RowOfId(monthly_analyses, ev.id).total_entries
                   = Num(Len(BatchOf(ev.batch)) - ev.failed)

\* the classifier ran on a main group that is missing or not in the table
FallbackCase ==
    /\ r_pc = "done"
    /\ r_in.grupo_principal \notin {T_RECEITAS, T_CUSTOS_E_DESPESAS}

LargerSide == IF r_in.valor_credito > r_in.valor_debito
              THEN r_in.valor_credito ELSE r_in.valor_debito

\* C24 as stated: in the fallback the classifier returns Receita with the
\* credit value when the credit value is strictly larger, otherwise Despesa
\* with the debit value; the period value is the larger of the two values.
C24_FallbackReturnsLargerValue ==
    FallbackCase =>
        /\ r_out = IF r_in.valor_credito > r_in.valor_debito
                   THEN [movement_type |-> "Receita", period_value |-> r_in.valor_credito]
                   ELSE [movement_type |-> "Despesa", period_value |-> r_in.valor_debito]
        /\ r_out.period_value = LargerSide

\* C24 amended: in the fallback the classifier returns Receita with the
\* absolute credit value when the credit value is strictly larger, otherwise
\* (a tie included) Despesa with the absolute debit value; the period value
\* is the absolute value of the larger of the two values, and that value
\* itself when it is not negative.
C24_FallbackReturnsAbsOfLarger ==
    FallbackCase =>
        /\ r_out = IF r_in.valor_credito > r_in.valor_debito
                   THEN [movement_type |-> "Receita",
                         period_value |-> Abs(r_in.valor_credito)]
                   ELSE [movement_type |-> "Despesa",
                         period_value |-> Abs(r_in.valor_debito)]
        /\ r_out.period_value = Abs(LargerSide)
        /\ LargerSide >= 0 => r_out.period_value = LargerSide

\* an unknown group with a negative credit above a smaller debit has been
\* classified as Receita with the credit's absolute value
C24_Witness ==
    /\ FallbackCase
    /\ r_in.grupo_principal = T_ATIVO
    /\ r_in.valor_debito < r_in.valor_credito
    /\ r_in.valor_credito < 0
    /\ r_out = [movement_type |-> "Receita", period_value |-> -r_in.valor_credito]

\* the movement type of a record, and the number of entries before the
\* k-th record was read
MovementOf(conta) ==
    map_movement_type(Or(Or(Get(conta, "movement_type"), Get(conta, "tipo")),
                         Get(conta, "movimento")))

KeptBefore(k) == IF k = 1 THEN 0 ELSE c_ev[k - 1]

\* the value recovery is to find: the debit-side fields for Despesa and
\* Custo, the credit-side fields for Receita, then valor and the balances
ExpectedRecovery(conta) ==
    LET o == Or(Get(conta, "original_data"), Dict(<<>>)).d
        debit  == parse_localized_number(
                      Or(Or(Get(o, "debito"), Get(o, "debts")), Get(o, "debit")))
        credit == parse_localized_number(
                      Or(Or(Get(o, "credito"), Get(o, "credit")), Get(o, "credito_ou")))
        other  == parse_localized_number(
                      Or(Or(Get(o, "valor"), Get(o, "saldo_atual")), Get(o, "saldo")))
        side   == IF MovementOf(conta) \in {"Despesa", "Custo"} THEN debit ELSE credit
    IN  IF side = 0 THEN other ELSE side

\* C25: a record whose period_value comes out as 0 is kept, with the value
\* recovered from the debit side (Despesa, Custo) or the credit side
\* (Receita) of original_data or else from valor/saldo, exactly when that
\* value is > 0; otherwise it yields no entry.
C25_RecoveryBySide ==
    \A k \in 1..Len(c_ev) :
        first_period_value(c_in[k]) = 0 =>
            IF ExpectedRecovery(c_in[k]) > 0
            THEN /\ c_ev[k] = KeptBefore(k) + 1
                 /\ c_out[c_ev[k]].period_value = ExpectedRecovery(c_in[k])
            ELSE c_ev[k] = KeptBefore(k)

\* C26: the entries one run is to persist hold at most one entry for each
\* account (main group and specific account).
C26_NoDuplicateEntries ==
    c_pc.at = "done" =>
        \A i, j \in 1..Len(c_out) :
            (/\ c_out[i].main_group = c_out[j].main_group
             /\ c_out[i].specific_account = c_out[j].specific_account) => i = j

\* a record of the shape parse_balancete_from_text emits, under RECEITAS
TextParserRevenue(conta) ==
    /\ {"valor_debito", "valor_credito", "grupo_principal"} \subseteq DOMAIN conta
    /\ DOMAIN conta \cap {"movement_type", "tipo", "movimento"} = {}
    /\ conta["grupo_principal"] = Str(T_RECEITAS)

\* C27: a record that names the main group RECEITAS and carries
\* valor_debito and valor_credito but no movement type is persisted with
\* movement_type Receita and the credit value as period_value.
C27_RevenueRecordIsReceita ==
    \A k \in 1..Len(c_ev) :
        TextParserRevenue(c_in[k]) =>
            /\ c_ev[k] = KeptBefore(k) + 1
            /\ c_out[c_ev[k]].movement_type = "Receita"
            /\ c_out[c_ev[k]].period_value = c_in[k]["valor_credito"].v

\* C28: when a call of create_analysis_and_entries returns and no other
\* call is in flight, the analysis holds the entries of exactly one
\* submitted statement, whatever the interleaving of the calls' upsert,
\* delete and insert steps was: never those of two runs together.
C28_ConcurrentRunsLeaveOneEntrySet ==
    (ev.op = "cae_return" /\ NoCallInFlight) =>
        \E stmt \in Statements :
            EntriesOf(financial_entries, ev.analysis_id)
                = CanonicalEntries(stmt, ev.analysis_id)

\* the stages of process_balancete in the order of the code
StageOrder == <<"extract", "analyze", "validate", "rules", "store">>

StageIndex(stage) == CHOOSE i \in 1..Len(StageOrder) : StageOrder[i] = stage

\* a step of the pipeline either enters the next stage, with nothing
\* returned and nothing quarantined so far, or ends the call; the call
\* ends with success only out of the store stage
C30_StagesInOrder ==
    p_pc' # p_pc =>
        /\ p_pc \in {StageOrder[i] : i \in 1..Len(StageOrder)}
        /\ \/ /\ StageIndex(p_pc) < Len(StageOrder)
              /\ p_pc' = StageOrder[StageIndex(p_pc) + 1]
              /\ p_result' = IdleLocal
              /\ p_quarantine' = "none"
              /\ p_stored' = <<>>
              /\ p_pc = "validate" => validate_structure(p_data) = {}
           \/ /\ p_pc' = "done"
              /\ "success" \in DOMAIN p_result'
              /\ p_result'.success => p_pc = "store"

\* the call has returned a result, which tells success from failure
C30_Returned == p_pc = "done" /\ "success" \in DOMAIN p_result

\* nothing is stored before the store stage has succeeded
C30_StoreLast ==
    /\ p_stored # <<>> => C30_Returned /\ p_result.success
    /\ (C30_Returned /\ p_result.success) =>
            p_stored = p_entries /\ p_quarantine = "none"

TextLineRead(k) ==
    LET linha == Strip(t_lines[k])
    IN  linha # <<>> /\ ~Contains(linha, T_Saldo_Anterior)

\* line k is a RECEITAS or CUSTOS E DESPESAS heading
MainHeading(k) ==
    /\ TextLineRead(k)
    /\ \/ StartsWith(Strip(t_lines[k]), T_RECEITAS_heading)
       \/ StartsWith(Strip(t_lines[k]), T_CUSTOS_heading)

\* line k is a subgroup heading: a name and a bracketed code, no amounts
SubgroupHeading(k) ==
    /\ TextLineRead(k)
    /\ ~MainHeading(k)
    /\ Contains(Strip(t_lines[k]), T_dash_bracket)
    /\ padrao_lancamento(Strip(t_lines[k])) = None

\* the name a heading line gives: its text before the first dash
HeadingName(k) == Str(BeforeDash(Strip(t_lines[k])))

\* the last main-group heading before line k, 0 when there is none
LastMainHeading(k) ==
    LET js == {j \in 1..(k - 1) : MainHeading(j)}
    IN  IF js = {} THEN 0 ELSE CHOOSE j \in js : \A i \in js : i <= j

\* the last subgroup heading between that main-group heading and line k
LastSubgroupHeading(k) ==
    LET js == {j \in (LastMainHeading(k) + 1)..(k - 1) : SubgroupHeading(j)}
    IN  IF js = {} THEN 0 ELSE CHOOSE j \in js : \A i \in js : i <= j

\* the number of entries emitted by the lines before line k
TextEntriesBefore(k) == IF k = 1 THEN 0 ELSE t_ev[k - 1].entries

\* line k emitted an entry
EmittedAt(k) == t_ev[k].entries # TextEntriesBefore(k)

\* the entry of line k has the main group of the last main-group heading
\* and a debit or a credit above zero
EntryUnderMainGroup(k) ==
    /\ t_ev[k].entries = TextEntriesBefore(k) + 1
    /\ LastMainHeading(k) > 0
    /\ LET entry == t_entries[t_ev[k].entries]
       IN  /\ entry.grupo_principal = HeadingName(LastMainHeading(k))
           /\ entry.valor_debito > 0 \/ entry.valor_credito > 0

\* C29 as stated: no entry is emitted before the first RECEITAS or CUSTOS E
\* DESPESAS heading; every emitted entry carries the main group of the most
\* recent main-group heading and the subgroup of the most recent subgroup
\* heading seen since that main-group heading, the name of the main group
\* when there is none, and has a debit or a credit above zero.
C29_EntryCarriesLastHeadings ==
    \A k \in 1..Len(t_ev) :
        EmittedAt(k) =>
            /\ EntryUnderMainGroup(k)
            /\ t_entries[t_ev[k].entries].subgrupo_1 =
                   IF LastSubgroupHeading(k) = 0
                   THEN HeadingName(LastMainHeading(k))
                   ELSE HeadingName(LastSubgroupHeading(k))

\* C29 amended: the same, and the entry carries the name of the main group
\* also when the most recent subgroup heading has an empty name (its line
\* starts with the dash).
C29_EntryCarriesLastNamedHeading ==
    \A k \in 1..Len(t_ev) :
        EmittedAt(k) =>
            /\ EntryUnderMainGroup(k)
            /\ t_entries[t_ev[k].entries].subgrupo_1 =
                   IF \/ LastSubgroupHeading(k) = 0
                      \/ HeadingName(LastSubgroupHeading(k)) = Str(<<>>)
                   THEN HeadingName(LastMainHeading(k))
                   ELSE HeadingName(LastSubgroupHeading(k))

\* the text was read to its end; one entry was emitted under a main-group
\* heading alone and one under a named subgroup heading
C29_Witness ==
    /\ t_pc.at = "done"
    /\ \E k, m \in 1..Len(t_ev) :
        /\ EmittedAt(k) /\ EmittedAt(m)
        /\ LastSubgroupHeading(k) > 0
        /\ HeadingName(LastSubgroupHeading(k)) # Str(<<>>)
        /\ LastSubgroupHeading(m) = 0

====
